---- MODULE Spec2Model ----
(***************************************************************************)
(* Model of the WHOOP token-and-sync subsystem of the bot:                 *)
(*   internal/whoop/service.go  (Service: OAuth callback, token refresh,   *)
(*                               per-user and all-user sync)               *)
(*   internal/database          (whoop_connections / whoop_recovery /      *)
(*                               whoop_sleep tables and their statements)  *)
(* Every call to the record store or to the provider is one atomic step of *)
(* the calling goroutine; the store and the provider may fail any call.    *)
(* Time is counted in hours.  Strings that the code parses or builds are   *)
(* sequences of characters, one element per character.                     *)
(***************************************************************************)
EXTENDS Integers, Sequences, FiniteSets, TLC

\* ------------------------------------------------------------------ bounds
MaxTicks == 1      \* how far the clock advances
MaxTok   == 3      \* how many token pairs the provider issues
MaxCalls == 3      \* service calls started in one behaviour
StartTime == 48    \* clock value of the initial state
MaxRows  == 2      \* rows of the team data handed to the formatter
MaxKarma == 3      \* entries of the karma log

\* --------------------------------------------------------- program constants
Hour == 1          \* time.Hour, the refresh threshold
Day  == 24         \* 24 * time.Hour, the truncation unit of record dates
MinStateLen == 10  \* shortest accepted OAuth state

\* ------------------------------------------------------------------ strings
Digit(d) == CASE d = 0 -> "0" [] d = 1 -> "1" [] d = 2 -> "2" [] d = 3 -> "3"
              [] d = 4 -> "4" [] d = 5 -> "5" [] d = 6 -> "6" [] d = 7 -> "7"
              [] d = 8 -> "8" [] OTHER -> "9"

RECURSIVE FmtInt(_)
\* fmt.Sprintf("%d", n) for n >= 0
FmtInt(n) == IF n < 10 THEN <<Digit(n)>> ELSE FmtInt(n \div 10) \o <<Digit(n % 10)>>

U1 == <<"U", "1">>
U2 == <<"U", "2">>
Users == {U1, U2}

\* hex.EncodeToString of the 16 random bytes: 32 hex characters
HexPairs == {<<"0", "f">>, <<"a", "3">>}
RECURSIVE Repeat(_, _)
Repeat(s, n) == IF n = 0 THEN <<>> ELSE s \o Repeat(s, n - 1)
GenerateState(pair) == Repeat(pair, 16)

\* fmt.Sprintf("%s:%s", userID, GenerateState())
AuthState(userID, pair) == userID \o <<":">> \o GenerateState(pair)

\* index of the first ':' of state, 0 when there is none
FirstColon(state) ==
    IF \E i \in 1..Len(state) : state[i] = ":"
    THEN CHOOSE i \in 1..Len(state) :
            state[i] = ":" /\ \A j \in 1..(i - 1) : state[j] # ":"
    ELSE 0

\* a character outside ASCII: U+00E9, two bytes in UTF-8
EAcute == "U+00E9"

\* number of bytes of the UTF-8 encoding of a character
Utf8Len(ch) == IF ch = EAcute THEN 2 ELSE 1

RECURSIVE ByteLen(_)
\* len(s) of a Go string: its length in bytes
ByteLen(s) == IF s = <<>> THEN 0 ELSE Utf8Len(Head(s)) + ByteLen(Tail(s))

\* the user id HandleOAuthCallback reads from state; <<>> when it rejects it
ParseStateKeepColon(state) ==
    IF ByteLen(state) < MinStateLen THEN <<>>
    ELSE IF FirstColon(state) = 0 THEN <<>>
    ELSE SubSeq(state, 1, FirstColon(state))
ParseStateNoLengthCheck(state) ==
    IF FirstColon(state) = 0 THEN <<>>
    ELSE SubSeq(state, 1, FirstColon(state) - 1)
ParseState(state) ==
    IF ByteLen(state) < MinStateLen THEN <<>>
    ELSE IF FirstColon(state) = 0 THEN <<>>
    ELSE SubSeq(state, 1, FirstColon(state) - 1)

\* states the callback endpoint may be called with
StateInputs ==
    {AuthState(u, <<"0", "f">>) : u \in Users}
    \cup { <<"U", "1", ":", "a", "b">>,
           <<"U", "1", "a", "b", "c", "d", "e", "f", "0", "1", "2">>,
           <<":", "U", "1", "a", "b", "c", "d", "e", "f", "0", "1">>,
           <<"U", "1", ":", EAcute, EAcute, EAcute, EAcute>> }

\* ------------------------------------------------------------------- tokens
NoToken == <<"", 0>>
AccessTok(n)  == <<"at", n>>
RefreshTok(n) == <<"rt", n>>
ExpiresIns == {2}
WhoopIds == {7}

TokenResponse(n, e) ==
    [access_token |-> AccessTok(n), refresh_token |-> RefreshTok(n), expires_in |-> e]

\* ------------------------------------------------------- whoop_connections
NoConn == [user_id |-> <<>>, whoop_user_id |-> <<>>, access_token |-> NoToken,
           refresh_token |-> NoToken, expires_at |-> 0, connected_at |-> 0,
           active |-> FALSE]

RowsOf(tbl) == {tbl[i] : i \in DOMAIN tbl}

\* INSERT OR REPLACE with UNIQUE(user_id): conflicting rows are deleted and
\* the new row is inserted with a fresh rowid (the end of the table)
UpsertWHOOPConnectionNoReplace(tbl, c) == Append(tbl, c)
\* an update that leaves the active flag of an existing row as it is
UpsertWHOOPConnectionKeepFlag(tbl, c) ==
    LET keep(r) == r.user_id # c.user_id
        old == {r \in RowsOf(tbl) : r.user_id = c.user_id}
    IN  Append(SelectSeq(tbl, keep),
               IF old = {} THEN c
               ELSE [c EXCEPT !.active = \A r \in old : r.active])
UpsertWHOOPConnection(tbl, c) ==
    LET keep(r) == r.user_id # c.user_id
    IN  Append(SelectSeq(tbl, keep), c)

\* SELECT ... WHERE user_id = ? AND active = 1, first row; NoConn for no rows
GetWHOOPConnection(tbl, userID) ==
    LET hit(r) == r.user_id = userID /\ r.active
        rows == SelectSeq(tbl, hit)
    IN  IF rows = <<>> THEN NoConn ELSE rows[1]

\* SELECT ... WHERE active = 1, in rowid order
GetAllActiveWHOOPConnections(tbl) ==
    LET hit(r) == r.active
    IN  SelectSeq(tbl, hit)

\* UPDATE whoop_connections SET active = 0 WHERE user_id = ?
\* DELETE FROM whoop_connections WHERE user_id = ?
DeactivateWHOOPConnectionDelete(tbl, userID) ==
    LET keep(r) == r.user_id # userID
    IN  SelectSeq(tbl, keep)
DeactivateWHOOPConnectionAll(tbl, userID) ==
    [i \in DOMAIN tbl |-> [tbl[i] EXCEPT !.active = FALSE]]
DeactivateWHOOPConnection(tbl, userID) ==
    [i \in DOMAIN tbl |->
        IF tbl[i].user_id = userID THEN [tbl[i] EXCEPT !.active = FALSE] ELSE tbl[i]]

\* ------------------------------------------- whoop_recovery and whoop_sleep
\* INSERT OR REPLACE with UNIQUE(user_id, date); the order of rows is not
\* observable through any statement on these tables, so a table is a set
UpsertWHOOPRecoveryNoReplace(tbl, r) == tbl \cup {r}
UpsertWHOOPRecovery(tbl, r) ==
    {x \in tbl : ~(x.user_id = r.user_id /\ x.date = r.date)} \cup {r}

\* UPDATE of the score column of an existing row instead of a replacement
UpsertWHOOPSleepMerge(tbl, r) ==
    IF \E x \in tbl : x.user_id = r.user_id /\ x.date = r.date
    THEN {IF x.user_id = r.user_id /\ x.date = r.date
          THEN [x EXCEPT !.score = r.score] ELSE x : x \in tbl}
    ELSE tbl \cup {r}
UpsertWHOOPSleepIgnore(tbl, r) ==
    IF \E x \in tbl : x.user_id = r.user_id /\ x.date = r.date THEN tbl ELSE tbl \cup {r}
UpsertWHOOPSleep(tbl, r) ==
    {x \in tbl : ~(x.user_id = r.user_id /\ x.date = r.date)} \cup {r}

\* t.Truncate(24 * time.Hour)
Truncate(t) == t - (t % Day)

\* int(f) of a non-negative float given in tenths
IntOfTenths(x) == x \div 10

\* the row syncRecoveryData builds from one provider record
RecoveryModel(connection, recovery, clock) ==
    [user_id       |-> connection.user_id,
     whoop_user_id |-> FmtInt(recovery.user_id),
     date          |-> Truncate(recovery.created_at),
     score         |-> IntOfTenths(recovery.recovery_score),
     hrv           |-> recovery.hrv,
     rhr           |-> IntOfTenths(recovery.resting_hr),
     created_at    |-> clock]

\* the fallback estimate rounded to the nearest whole number
EstimateSleepScoreRounded(totalSleepMS, efficiency) ==
    IF totalSleepMS >= 27000000 /\ efficiency >= 85
    THEN 75 + (efficiency - 85)
    ELSE IF totalSleepMS >= 23400000 /\ efficiency >= 75
    THEN 60 + ((efficiency - 75) * 150 + 50) \div 100
    ELSE (efficiency * 60 + 50) \div 100

\* the fallback estimate of syncSleepData, in exact arithmetic
EstimateSleepScore(totalSleepMS, efficiency) ==
    IF totalSleepMS >= 27000000 /\ efficiency >= 85
    THEN 75 + (efficiency - 85)
    ELSE IF totalSleepMS >= 23400000 /\ efficiency >= 75
    THEN 60 + ((efficiency - 75) * 150) \div 100
    ELSE (efficiency * 60) \div 100

\* the row of a sleep record filed under the day its session started
SleepModelByStart(connection, s, clock) ==
    [user_id         |-> connection.user_id,
     whoop_user_id   |-> FmtInt(s.user_id),
     date            |-> Truncate(s.start),
     duration_ms     |-> s.light + s.sws + s.rem,
     efficiency      |-> s.efficiency,
     score           |-> IF s.sleep_score = 0 /\ s.efficiency > 0
                         THEN EstimateSleepScore(s.light + s.sws + s.rem, s.efficiency)
                         ELSE s.sleep_score,
     stages_deep_ms  |-> s.sws,
     stages_rem_ms   |-> s.rem,
     stages_light_ms |-> s.light,
     stages_wake_ms  |-> s.awake,
     created_at      |-> clock]

\* the row syncSleepData builds from one provider record
SleepModel(connection, s, clock) ==
    LET totalSleepMS == s.light + s.sws + s.rem
        sleepScore == IF s.sleep_score = 0 /\ s.efficiency > 0
                      THEN EstimateSleepScore(totalSleepMS, s.efficiency)
                      ELSE s.sleep_score
    IN  [user_id         |-> connection.user_id,
         whoop_user_id   |-> FmtInt(s.user_id),
         date            |-> Truncate(s.end),
         duration_ms     |-> totalSleepMS,
         efficiency      |-> s.efficiency,
         score           |-> sleepScore,
         stages_deep_ms  |-> s.sws,
         stages_rem_ms   |-> s.rem,
         stages_light_ms |-> s.light,
         stages_wake_ms  |-> s.awake,
         created_at      |-> clock]

\* provider records; the three float fields are given in tenths
R23 == [user_id |-> 7, created_at |-> 23, recovery_score |-> 405, hrv |-> 553, resting_hr |-> 612]
R25 == [user_id |-> 7, created_at |-> 25, recovery_score |-> 800, hrv |-> 717, resting_hr |-> 580]
R47 == [user_id |-> 7, created_at |-> 47, recovery_score |-> 669, hrv |-> 640, resting_hr |-> 597]

\* first pages GetRecovery may answer with
RecoveryPages == {<<>>, <<R23>>, <<R25, R47>>}

S31 == [user_id |-> 7, start |-> 23, end |-> 31, light |-> 14400000, sws |-> 7200000,
        rem |-> 7200000, awake |-> 1800000, efficiency |-> 90, sleep_score |-> 0]
S30 == [user_id |-> 7, start |-> 24, end |-> 30, light |-> 10800000, sws |-> 3600000,
        rem |-> 3600000, awake |-> 3600000, efficiency |-> 80, sleep_score |-> 72]

\* first pages GetSleep may answer with
SleepPages == {<<>>, <<S31, S30>>}

\* sleep records for the score of the ingestion: light sleep of 2 to 4 hours
\* (6 to 8 hours in all), every whole efficiency, a score of 0 or given
LightStages == {7200000, 9000000, 10800000, 12600000, 14400000}
Efficiencies == 0..100
ProviderScores == {0, 72}
SleepInputs ==
    {[S31 EXCEPT !.light = l, !.efficiency = e, !.sleep_score = sc] :
        l \in LightStages, e \in Efficiencies, sc \in ProviderScores}

\* -------------------------------------------------- users and the team query
\* INSERT OR REPLACE INTO users, id TEXT PRIMARY KEY: one row per id
UpsertUser(tbl, id) == tbl \cup {id}

\* the rows of user u with the least date
LatestOfOldest(tbl, u) ==
    {r \in tbl : r.user_id = u /\ \A x \in tbl : x.user_id = u => x.date >= r.date}

\* the rows of user u with the greatest date: date = (SELECT MAX(date) ...)
LatestOf(tbl, u) ==
    {r \in tbl : r.user_id = u /\ \A x \in tbl : x.user_id = u => x.date <= r.date}

\* LEFT JOIN: the matching rows, or one row of NULLs when there is none
LeftJoin(rows) == IF rows = {} THEN {<<>>} ELSE {<<r>> : r \in rows}

\* rows.Scan of column hrv (REAL) into sql.NullInt64: the float is formatted
\* and parsed as an integer, which fails unless it is a whole number
HrvScans(r) == r.hrv % 10 = 0

\* the rows of the join of GetTeamWHOOPDataForStandup: users INNER JOIN active
\* connections, LEFT JOIN each metric table on the user's greatest date
TeamJoin(usersTbl, connTbl, recTbl, sleepTbl, strainTbl) ==
    UNION {UNION {{[user_id |-> u, wc |-> i, wr |-> a, ws |-> b, wst |-> c] :
                     a \in LeftJoin(LatestOf(recTbl, u)),
                     b \in LeftJoin(LatestOf(sleepTbl, u)),
                     c \in LeftJoin(LatestOf(strainTbl, u))} :
                  i \in {k \in DOMAIN connTbl :
                            connTbl[k].user_id = u /\ connTbl[k].active}} :
           u \in usersTbl}

\* the map of a scanned row with the strain score set whether or not the
\* joined strain row is there
TeamResultStrainUnchecked(j) ==
    [k \in {"user_id", "wc", "strain_score"} |->
        CASE k = "wc"           -> j.wc
          [] k = "strain_score" -> 0
          [] OTHER              -> j.user_id]

\* the map built from one scanned row: the metric keys are set only when the
\* joined row is there; key wc keeps the rows of the join apart
TeamResult(j) ==
    LET keys == {"user_id", "username", "real_name", "wc"}
                \cup (IF j.wr = <<>> THEN {}
                      ELSE {"recovery_score", "hrv", "rhr", "recovery_date"})
                \cup (IF j.ws = <<>> THEN {}
                      ELSE {"sleep_score", "duration_ms", "efficiency", "sleep_date"})
                \cup (IF j.wst = <<>> THEN {} ELSE {"strain_score", "strain_date"})
    IN  [k \in keys |->
            CASE k = "wc"             -> j.wc
              [] k = "recovery_score" -> j.wr[1].score
              [] k = "hrv"            -> j.wr[1].hrv \div 10
              [] k = "rhr"            -> j.wr[1].rhr
              [] k = "recovery_date"  -> j.wr[1].date
              [] k = "sleep_score"    -> j.ws[1].score
              [] k = "duration_ms"    -> j.ws[1].duration_ms
              [] k = "efficiency"     -> j.ws[1].efficiency
              [] k = "sleep_date"     -> j.ws[1].date
              [] k = "strain_score"   -> j.wst[1].score
              [] k = "strain_date"    -> j.wst[1].date
              [] OTHER                -> j.user_id]

\* GetTeamWHOOPDataForStandup: the error of the first failing Scan, or the
\* maps of all rows
GetTeamWHOOPDataForStandup(usersTbl, connTbl, recTbl, sleepTbl, strainTbl) ==
    LET joined == TeamJoin(usersTbl, connTbl, recTbl, sleepTbl, strainTbl)
    IN  IF \E j \in joined : j.wr # <<>> /\ ~HrvScans(j.wr[1])
        THEN [err |-> TRUE, rows |-> {}]
        ELSE [err |-> FALSE, rows |-> {TeamResult(j) : j \in joined}]

\* ------------------------------------------------------- the status message
Metrics == {"recovery", "sleep", "strain"}

\* GetUserLatestData: the map with key "recovery" / "sleep" / "strain" for
\* each metric whose latest row could be read (ORDER BY date DESC LIMIT 1);
\* readable are the metrics whose query did not fail, and a query without a
\* row is an error like any other
GetUserLatestData(recTbl, sleepTbl, strainTbl, userID, readable) ==
    LET rows(k) == CASE k = "recovery" -> LatestOf(recTbl, userID)
                     [] k = "sleep"    -> LatestOf(sleepTbl, userID)
                     [] OTHER          -> LatestOf(strainTbl, userID)
        keys == {k \in readable : rows(k) # {}}
    IN  [k \in keys |-> CHOOSE r \in rows(k) : TRUE]

\* userData["username"] = ..., userData["real_name"] = ...
WithUserInfo(userData, username, realName) ==
    [k \in DOMAIN userData \cup {"username", "real_name"} |->
        IF k = "username" THEN username
        ELSE IF k = "real_name" THEN realName
        ELSE userData[k]]

\* getString / getInt64 / getFloat64: the value of the key, or the zero value
GetString(data, key) == IF key \in DOMAIN data THEN data[key] ELSE <<>>
GetNumber(data, key) == IF key \in DOMAIN data THEN data[key] ELSE 0

\* FormatUserStatus: the message as the sequence of its parts
FormatUserStatus(userData) ==
    LET realName == GetString(userData, "real_name")
        displayName == IF realName = <<>> THEN GetString(userData, "username")
                       ELSE realName
        has(key) == key \in DOMAIN userData
    IN  <<[part |-> "header", name |-> displayName]>>
        \o (IF has("recovery_score")
            THEN <<[part  |-> "recovery",
                    score |-> GetNumber(userData, "recovery_score"),
                    hrv   |-> GetNumber(userData, "hrv"),
                    rhr   |-> GetNumber(userData, "rhr"),
                    date  |-> GetNumber(userData, "recovery_date")]>>
            ELSE <<>>)
        \o (IF has("sleep_score")
            THEN <<[part        |-> "sleep",
                    score       |-> GetNumber(userData, "sleep_score"),
                    duration_ms |-> GetNumber(userData, "duration_ms"),
                    efficiency  |-> GetNumber(userData, "efficiency"),
                    date        |-> GetNumber(userData, "sleep_date")]>>
            ELSE <<>>)
        \o (IF has("strain_score")
            THEN <<[part  |-> "strain",
                    score |-> GetNumber(userData, "strain_score"),
                    date  |-> GetNumber(userData, "strain_date")]>>
            ELSE <<>>)
        \o (IF has("recovery_score") \/ has("sleep_score") \/ has("strain_score")
            THEN <<>> ELSE <<[part |-> "nodata"]>>)
        \o <<[part |-> "footer"]>>

\* --------------------------------------------------------- the team summary
\* the values of key in the rows that carry it, in row order
ScoresOfZeroFill(rows, key) ==
    [i \in DOMAIN rows |-> IF key \in DOMAIN rows[i] THEN rows[i][key] ELSE 0]
ScoresOf(rows, key) ==
    LET carries(row) == key \in DOMAIN row
        carriers == SelectSeq(rows, carries)
    IN  [i \in DOMAIN carriers |-> carriers[i][key]]

RECURSIVE SumSeq(_)
SumSeq(scores) == IF scores = <<>> THEN 0 ELSE Head(scores) + SumSeq(Tail(scores))

\* sum / float64(len(scores)) as the fraction num / den, 0.0 for no scores
AverageUnguarded(scores) == [num |-> SumSeq(scores), den |-> Len(scores)]
Average(scores) ==
    IF Len(scores) > 0 THEN [num |-> SumSeq(scores), den |-> Len(scores)]
    ELSE [num |-> 0, den |-> 1]

\* the integer nearest to num / den, ties to even: what %.0f prints
RoundHalfEven(x) ==
    LET q == x.num \div x.den
        r == x.num % x.den
    IN  IF 2 * r < x.den THEN q
        ELSE IF 2 * r > x.den THEN q + 1
        ELSE IF q % 2 = 0 THEN q ELSE q + 1

\* formatScore: "N/A" for 0, else the rounded percentage
formatScore(score) ==
    IF score.num = 0 THEN [na |-> TRUE, pct |-> 0]
    ELSE [na |-> FALSE, pct |-> RoundHalfEven(score)]

\* getTeamMoodEmoji: avgScore = (avgRecovery + avgSleep) / 2 against the
\* thresholds; twice avgScore is twoAvg / unit
getTeamMoodEmojiStrict(avgRecovery, avgSleep) ==
    LET twoAvg == avgRecovery.num * avgSleep.den + avgSleep.num * avgRecovery.den
        unit == avgRecovery.den * avgSleep.den
    IN  IF twoAvg > 150 * unit THEN "on fire"
        ELSE IF twoAvg > 120 * unit THEN "feeling strong"
        ELSE IF twoAvg > 90 * unit THEN "ready to go"
        ELSE IF twoAvg > 60 * unit THEN "needs coffee"
        ELSE "needs extra care"
getTeamMoodEmoji(avgRecovery, avgSleep) ==
    LET twoAvg == avgRecovery.num * avgSleep.den + avgSleep.num * avgRecovery.den
        unit == avgRecovery.den * avgSleep.den
    IN  IF twoAvg >= 150 * unit THEN "on fire"
        ELSE IF twoAvg >= 120 * unit THEN "feeling strong"
        ELSE IF twoAvg >= 90 * unit THEN "ready to go"
        ELSE IF twoAvg >= 60 * unit THEN "needs coffee"
        ELSE "needs extra care"

\* calculateTeamSummary
calculateTeamSummary(rows) ==
    LET avgRecovery == Average(ScoresOf(rows, "recovery_score"))
        avgSleep == Average(ScoresOf(rows, "sleep_score"))
    IN  [avgRecovery  |-> formatScore(avgRecovery),
         avgSleep     |-> formatScore(avgSleep),
         totalSleepMS |-> SumSeq(ScoresOf(rows, "duration_ms")),
         emoji        |-> getTeamMoodEmoji(avgRecovery, avgSleep),
         recoveryNum  |-> avgRecovery,
         sleepNum     |-> avgSleep]

\* no summary computed yet
NoSummary == <<>>

\* ------------------------------------------------------ the standup message
\* getRecoveryEmoji
getRecoveryEmojiStrict(score) ==
    IF score > 75 THEN "green"
    ELSE IF score > 50 THEN "yellow"
    ELSE IF score > 25 THEN "orange"
    ELSE "red"
getRecoveryEmoji(score) ==
    IF score >= 75 THEN "green"
    ELSE IF score >= 50 THEN "yellow"
    ELSE IF score >= 25 THEN "orange"
    ELSE "red"

\* getSleepEmoji
getSleepEmoji(score) ==
    IF score >= 80 THEN "great"
    ELSE IF score >= 60 THEN "good"
    ELSE IF score >= 40 THEN "average"
    ELSE "poor"

\* formatUserData: the line of one user, as the name and the sequence of its
\* clauses
formatUserData(userData) ==
    LET realName == GetString(userData, "real_name")
        displayName == IF realName = <<>> THEN GetString(userData, "username")
                       ELSE realName
        recoveryText ==
            IF "recovery_score" \in DOMAIN userData
            THEN LET score == GetNumber(userData, "recovery_score")
                     hrv == GetNumber(userData, "hrv")
                     rhr == GetNumber(userData, "rhr")
                 IN  <<[clause |-> "recovery", emoji |-> getRecoveryEmoji(score),
                        score |-> score,
                        vitals |-> IF hrv > 0 /\ rhr > 0 THEN <<hrv, rhr>> ELSE <<>>]>>
            ELSE <<>>
        sleepText ==
            IF "sleep_score" \in DOMAIN userData
            THEN LET score == GetNumber(userData, "sleep_score")
                 IN  <<[clause |-> "sleep", emoji |-> getSleepEmoji(score),
                        score |-> score,
                        duration_ms |-> GetNumber(userData, "duration_ms"),
                        efficiency |-> GetNumber(userData, "efficiency")]>>
            ELSE <<>>
        parts == recoveryText \o sleepText
    IN  [part |-> "user", name |-> displayName,
         clauses |-> IF Len(parts) = 0 THEN <<[clause |-> "nodata"]>> ELSE parts]

\* generateMotivationalFooter: the message of the weekday and the message of
\* the band of the average recovery
generateMotivationalFooter(teamSummary, clock) ==
    [part |-> "footer",
     weekday |-> (clock \div Day) % 7,
     performance |->
        IF teamSummary.recoveryNum.num >= 70 * teamSummary.recoveryNum.den THEN "well"
        ELSE IF teamSummary.recoveryNum.num >= 50 * teamSummary.recoveryNum.den THEN "good"
        ELSE IF teamSummary.recoveryNum.num > 0 THEN "easy"
        ELSE "none"]

\* FormatMorningStandup: the message as the sequence of its parts
FormatMorningStandupNoGuard(rows, clock) ==
    LET teamSummary == calculateTeamSummary(rows)
    IN  <<[part |-> "header"],
          [part |-> "overview", emoji |-> teamSummary.emoji,
           avgRecovery |-> teamSummary.avgRecovery, avgSleep |-> teamSummary.avgSleep,
           totalSleepMS |-> teamSummary.totalSleepMS]>>
        \o [i \in DOMAIN rows |-> formatUserData(rows[i])]
        \o <<generateMotivationalFooter(teamSummary, clock)>>
FormatMorningStandup(rows, clock) ==
    IF Len(rows) = 0 THEN <<[part |-> "connect"]>>
    ELSE LET teamSummary == calculateTeamSummary(rows)
         IN  <<[part |-> "header"],
               [part |-> "overview", emoji |-> teamSummary.emoji,
                avgRecovery |-> teamSummary.avgRecovery,
                avgSleep |-> teamSummary.avgSleep,
                totalSleepMS |-> teamSummary.totalSleepMS]>>
             \o [i \in DOMAIN rows |-> formatUserData(rows[i])]
             \o <<generateMotivationalFooter(teamSummary, clock)>>

\* a row of team data with recovery score r and sleep score s; a negative
\* score stands for a row without that metric
Row(r, s) ==
    LET keys == {"user_id", "username", "real_name"}
                \cup (IF r < 0 THEN {} ELSE {"recovery_score", "hrv", "rhr"})
                \cup (IF s < 0 THEN {} ELSE {"sleep_score", "duration_ms", "efficiency"})
    IN  [k \in keys |->
            CASE k = "recovery_score" -> r
              [] k = "hrv"            -> 55
              [] k = "rhr"            -> 60
              [] k = "sleep_score"    -> s
              [] k = "duration_ms"    -> 28800000
              [] k = "efficiency"     -> 90
              [] OTHER                -> U1]

RecoveryScores == {0, 25, 50, 60, 75, 80}
SleepScores == {0, 70, 90}
SummaryRows == {Row(r, s) : r \in RecoveryScores \cup {-1}, s \in SleepScores \cup {-1}}

\* the team data the formatter is called with
TeamInputs == UNION {[1..k -> SummaryRows] : k \in 0..MaxRows}

\* -------------------------------------------------------------------- state
Procs == {"cmd", "cron"}

VARIABLES
    now,        \* the wall clock, in hours
    issued,     \* provider: number of token pairs issued so far
    calls,      \* number of service calls started so far
    msg,        \* per goroutine: the last response to a slash command
    teamData,   \* the rows handed to the team formatter
    summary,    \* the TeamSummary computed from teamData
    conns,      \* table whoop_connections, in rowid order
    recovery,   \* table whoop_recovery
    sleep,      \* table whoop_sleep
    strain,     \* table whoop_strain
    users,      \* table users: the ids that have a row
    karma,      \* table karma: one row per user id, with the score
    karma_log,  \* table karma_log, in rowid order
    pc,         \* per goroutine: position in the service call it runs
    op,         \* per goroutine: the service call it runs or ran last
    uid,        \* per goroutine: userID of the call
    conn,       \* per goroutine: the local *models.WHOOPConnection
    tok,        \* per goroutine: the local *TokenResponse
    queue,      \* per goroutine: connections SyncAllUsersData still has to visit
    resp,       \* per goroutine: provider records still to be stored
    ret,        \* per goroutine: what the last service call returned
    hist,       \* per goroutine: record of the current call (history)
    all,        \* per goroutine: record of the current SyncAllUsersData (history)
    dead        \* users whose refresh failed and who did not reconnect since (history)

vars == <<now, issued, calls, msg, teamData, summary, conns, recovery, sleep, strain, users, karma, karma_log, pc, op, uid, conn, tok,
          queue, resp, ret, hist, all, dead>>

store == <<conns, recovery, sleep, strain, users, karma, karma_log>>
locals == <<uid, conn, tok, queue, resp>>

NoTok == [access_token |-> NoToken, refresh_token |-> NoToken, expires_in |-> 0]

FreshHist ==
    [sudRet |-> "none", rtIn |-> NoConn, rtNow |-> 0,
     refreshCalls |-> 0, fails |-> {}, fetched |-> {},
     recGot |-> <<>>, sleepGot |-> <<>>, recPut |-> <<>>, sleepPut |-> <<>>,
     overwrote |-> {}, data |-> <<>>, readable |-> {},
     req |-> <<>>, cbCalls |-> 0, window |-> <<>>, requests |-> <<>>,
     fetchToks |-> <<>>, usedRt |-> NoToken]

FreshAll == [listed |-> {}, order |-> <<>>, failed |-> {}, listFailed |-> FALSE]

InitService ==
    /\ now = StartTime
    /\ issued = 0
    /\ calls = 0
    /\ msg = [p \in Procs |-> <<>>]
    /\ summary = NoSummary
    /\ conns = <<>>
    /\ recovery = {}
    /\ sleep = {}
    /\ strain = {}
    /\ users = {}
    /\ karma = {}
    /\ karma_log = <<>>
    /\ pc = [p \in Procs |-> "idle"]
    /\ op = [p \in Procs |-> "none"]
    /\ uid = [p \in Procs |-> <<>>]
    /\ conn = [p \in Procs |-> NoConn]
    /\ tok = [p \in Procs |-> NoTok]
    /\ queue = [p \in Procs |-> <<>>]
    /\ resp = [p \in Procs |-> <<>>]
    /\ ret = [p \in Procs |-> "none"]
    /\ hist = [p \in Procs |-> FreshHist]
    /\ all = [p \in Procs |-> FreshAll]
    /\ dead = {}

Init == InitService /\ teamData = <<>>

\* the clock advances between any two steps
Tick ==
    /\ now < StartTime + MaxTicks
    /\ now' = now + 1
    /\ UNCHANGED <<issued, calls, msg, teamData, summary, conns, recovery, sleep, strain, users, karma, karma_log, pc, op, uid, conn, tok,
                   queue, resp, ret, hist, all, dead>>

\* a service call starts on an idle goroutine
Begin(p, name) ==
    /\ pc[p] = "idle"
    /\ calls < MaxCalls
    /\ calls' = calls + 1
    /\ op' = [op EXCEPT ![p] = name]

\* history: the upsert of row c replaces a differing row of the same user
ReplacesConn(c) ==
    (IF \E r \in RowsOf(conns) : r.user_id = c.user_id /\ r # c THEN {"conn"} ELSE {})
    \cup (IF \E r \in RowsOf(conns) : r.user_id = c.user_id /\ ~r.active
          THEN {"conn_inactive"} ELSE {})

\* history: the upsert of row r replaces a row of table tbl with another score
ReplacesMetric(tbl, r, name) ==
    IF \E x \in tbl : x.user_id = r.user_id /\ x.date = r.date /\ x.score # r.score
    THEN {name} ELSE {}

\* ------------------------------------------------------ HandleOAuthCallback
\* where HandleOAuthCallback returns to: the HTTP handler that called it, or
\* the caller of the service
CbReturnPcStoreAnyway(p) == "cb_upsert"
CbReturnPc(p) == IF op[p] = "handleCallback" THEN "http_respond" ELSE "idle"

\* entry: the length check and the scan for the first ':'
HandleOAuthCallback(p, state) ==
    /\ Begin(p, "HandleOAuthCallback")
    /\ hist' = [hist EXCEPT ![p] = FreshHist]
    /\ IF ParseState(state) = <<>>
       THEN /\ ret' = [ret EXCEPT ![p] = "err_state"]
            /\ UNCHANGED <<pc, uid>>
       ELSE /\ ret' = [ret EXCEPT ![p] = "none"]
            /\ pc' = [pc EXCEPT ![p] = "cb_exchange"]
            /\ uid' = [uid EXCEPT ![p] = ParseState(state)]
    /\ all' = [all EXCEPT ![p] = FreshAll]
    /\ UNCHANGED <<now, issued, msg, teamData, summary, store, conn, tok, queue, resp, dead>>

\* s.client.ExchangeCodeForToken(code)
CB_Exchange(p) ==
    /\ pc[p] = "cb_exchange"
    /\ \/ /\ issued < MaxTok
          /\ \E e \in ExpiresIns :
                tok' = [tok EXCEPT ![p] = TokenResponse(issued + 1, e)]
          /\ issued' = issued + 1
          /\ pc' = [pc EXCEPT ![p] = "cb_profile"]
          /\ UNCHANGED ret
       \/ /\ pc' = [pc EXCEPT ![p] = CbReturnPc(p)]
          /\ ret' = [ret EXCEPT ![p] = "err_exchange"]
          /\ UNCHANGED <<tok, issued>>
    /\ UNCHANGED <<now, calls, msg, teamData, summary, store, op, uid, conn, queue, resp, hist, all, dead>>

\* s.client.GetUserProfile and the construction of the connection record
CB_Profile(p) ==
    /\ pc[p] = "cb_profile"
    /\ \/ /\ \E w \in WhoopIds :
                conn' = [conn EXCEPT ![p] =
                    [user_id       |-> uid[p],
                     whoop_user_id |-> FmtInt(w),
                     access_token  |-> tok[p].access_token,
                     refresh_token |-> tok[p].refresh_token,
                     expires_at    |-> now + tok[p].expires_in,
                     connected_at  |-> now,
                     active        |-> TRUE]]
          /\ pc' = [pc EXCEPT ![p] = "cb_upsert"]
          /\ UNCHANGED ret
       \/ /\ pc' = [pc EXCEPT ![p] = CbReturnPc(p)]
          /\ ret' = [ret EXCEPT ![p] = "err_profile"]
          /\ UNCHANGED conn
    /\ tok' = [tok EXCEPT ![p] = NoTok]
    /\ UNCHANGED <<now, issued, calls, msg, teamData, summary, store, op, uid, queue, resp, hist, all, dead>>

\* s.db.UpsertWHOOPConnection(connection)
CB_Upsert(p) ==
    /\ pc[p] = "cb_upsert"
    /\ pc' = [pc EXCEPT ![p] = CbReturnPc(p)]
    /\ conn' = [conn EXCEPT ![p] = NoConn]
    /\ \/ /\ conns' = UpsertWHOOPConnection(conns, conn[p])
          /\ ret' = [ret EXCEPT ![p] = "ok"]
          /\ dead' = dead \ {conn[p].user_id}
          /\ hist' = [hist EXCEPT ![p].overwrote = @ \cup ReplacesConn(conn[p])]
       \/ /\ ret' = [ret EXCEPT ![p] = "err_store"]
          /\ UNCHANGED <<conns, dead, hist>>
    /\ UNCHANGED <<now, issued, calls, msg, teamData, summary, recovery, sleep, strain, users, karma, karma_log, op, uid, tok, queue,
                   resp, all>>

\* ----------------------------------------------- OAuthServer.handleCallback
\* values of the code query parameter: absent, or a code
Codes == {<<>>, <<"c">>}

\* the query parameter handleCallback finds missing
MissingParamCodeOnly(code, state) == IF code = <<>> THEN "code" ELSE "none"
MissingParam(code, state) ==
    IF code = <<>> THEN "code" ELSE IF state = <<>> THEN "state" ELSE "none"

\* http.Error(w, detail, status)
HttpError(status, detail) == <<[part |-> "http", status |-> status, body |-> detail]>>

\* the 200 response with the HTML confirmation page
HttpSuccess == <<[part |-> "http", status |-> 200, body |-> "html"]>>

\* GET /whoop/callback?code=...&state=...: the two parameter checks, then
\* the entry of s.service.HandleOAuthCallback(code, state)
handleCallback(p, code, state) ==
    /\ Begin(p, "handleCallback")
    /\ all' = [all EXCEPT ![p] = FreshAll]
    /\ LET h == [FreshHist EXCEPT !.req = <<code, state>>]
           called == [h EXCEPT !.cbCalls = 1]
       IN  IF MissingParam(code, state) = "code"
           THEN /\ msg' = [msg EXCEPT ![p] = HttpError(400, "missing_code")]
                /\ hist' = [hist EXCEPT ![p] = h]
                /\ ret' = [ret EXCEPT ![p] = "none"]
                /\ UNCHANGED <<pc, uid>>
           ELSE IF MissingParam(code, state) = "state"
           THEN /\ msg' = [msg EXCEPT ![p] = HttpError(400, "missing_state")]
                /\ hist' = [hist EXCEPT ![p] = h]
                /\ ret' = [ret EXCEPT ![p] = "none"]
                /\ UNCHANGED <<pc, uid>>
           ELSE IF ParseState(state) = <<>>
           THEN /\ msg' = [msg EXCEPT ![p] = HttpError(500, "err_state")]
                /\ hist' = [hist EXCEPT ![p] = called]
                /\ ret' = [ret EXCEPT ![p] = "err_state"]
                /\ UNCHANGED <<pc, uid>>
           ELSE /\ msg' = [msg EXCEPT ![p] = <<>>]
                /\ hist' = [hist EXCEPT ![p] = called]
                /\ ret' = [ret EXCEPT ![p] = "none"]
                /\ pc' = [pc EXCEPT ![p] = "cb_exchange"]
                /\ uid' = [uid EXCEPT ![p] = ParseState(state)]
    /\ UNCHANGED <<now, issued, teamData, summary, store, conn, tok, queue, resp, dead>>

\* HandleOAuthCallback has returned to handleCallback: the error response
\* with the failure detail, or the confirmation page
Http_Respond(p) ==
    /\ pc[p] = "http_respond"
    /\ pc' = [pc EXCEPT ![p] = "idle"]
    /\ msg' = [msg EXCEPT ![p] = IF ret[p] = "ok" THEN HttpSuccess
                                 ELSE HttpError(500, ret[p])]
    /\ UNCHANGED <<now, issued, calls, teamData, summary, store, op, uid, conn, tok,
                   queue, resp, ret, hist, all, dead>>

\* ------------------------------------------------------------ SyncUserData
\* SyncUserData returns r: to the caller's loop inside SyncAllUsersData,
\* otherwise to the caller of the service; its locals go out of scope
SudReturnTo(p, name, h, r) ==
    /\ hist' = [hist EXCEPT ![p] = [h EXCEPT !.sudRet = r, !.rtIn = NoConn, !.rtNow = 0,
                                              !.window = <<>>]]
    /\ pc' = [pc EXCEPT ![p] = IF name \in {"SyncAllUsersData", "SendMorningStandup"}
                               THEN "all_next"
                               ELSE IF name = "handleWHOOPStatusCommand"
                               THEN "status_respond" ELSE "idle"]
    /\ ret' = IF name = "SyncUserData" THEN [ret EXCEPT ![p] = r] ELSE ret
    /\ conn' = [conn EXCEPT ![p] = NoConn]
    /\ tok' = [tok EXCEPT ![p] = NoTok]
    /\ resp' = [resp EXCEPT ![p] = <<>>]

SudReturnPropagate(p, name, h, r) ==
    SudReturnTo(p, name, h,
        IF r = "ok" /\ h.fails \cap {"rec_fetch", "rec_write", "sleep_fetch", "sleep_write"} # {}
        THEN "err_sync" ELSE r)
SudReturn(p, name, h, r) == SudReturnTo(p, name, h, r)

\* entry of SyncUserData(userID), c being what s.db.GetWHOOPConnection(userID)
\* finds: the call goes on with c, or returns when there is no active
\* connection or the read fails
SudEnterWith(p, name, userID, c) ==
    /\ uid' = [uid EXCEPT ![p] = userID]
    /\ \/ /\ c # NoConn
          /\ conn' = [conn EXCEPT ![p] = c]
          /\ hist' = [hist EXCEPT ![p] = FreshHist]
          /\ pc' = [pc EXCEPT ![p] = "rt_check"]
          /\ ret' = IF name = "SyncUserData" THEN [ret EXCEPT ![p] = "none"] ELSE ret
          /\ UNCHANGED <<tok, resp>>
       \/ SudReturn(p, name, [FreshHist EXCEPT !.fails = {"load"}], "err_noconn")

SudEnter(p, name, userID) ==
    SudEnterWith(p, name, userID, GetWHOOPConnection(conns, userID))

\* the connection the turn of a listed connection works with: the loop
\* passes connection.UserID to SyncUserData, which reads the store again
TurnConnectionListed(tbl, listed) == listed
TurnConnection(tbl, listed) == GetWHOOPConnection(tbl, listed.user_id)

SyncUserData(p, userID) ==
    /\ Begin(p, "SyncUserData")
    /\ SudEnter(p, "SyncUserData", userID)
    /\ all' = [all EXCEPT ![p] = FreshAll]
    /\ UNCHANGED <<now, issued, msg, teamData, summary, store, queue, dead>>

\* the test of RefreshTokenIfNeeded: time.Until(connection.ExpiresAt) > time.Hour
NeedsRefreshStrict(connection, clock) == ~(connection.expires_at - clock >= Hour)
NeedsRefresh(connection, clock) == ~(connection.expires_at - clock > Hour)

\* RefreshTokenIfNeeded up to and including s.client.RefreshAccessToken
RT_Refresh(p) ==
    /\ pc[p] = "rt_check"
    /\ LET h == [hist[p] EXCEPT !.rtIn = conn[p], !.rtNow = now]
           called == [h EXCEPT !.refreshCalls = @ + 1,
                               !.requests = Append(@, "refresh")]
       IN  IF ~NeedsRefresh(conn[p], now)
           THEN /\ hist' = [hist EXCEPT ![p] = h]
                /\ pc' = [pc EXCEPT ![p] = "rec_fetch"]
                /\ UNCHANGED <<issued, tok, conn>>
           ELSE \/ /\ issued < MaxTok
                   /\ \E e \in ExpiresIns :
                        /\ tok' = [tok EXCEPT ![p] = TokenResponse(issued + 1, e)]
                        /\ conn' = [conn EXCEPT ![p] =
                              [@ EXCEPT !.access_token = AccessTok(issued + 1),
                                        !.refresh_token = RefreshTok(issued + 1),
                                        !.expires_at = now + e]]
                   /\ issued' = issued + 1
                   /\ hist' = [hist EXCEPT ![p] =
                                  [called EXCEPT !.usedRt = conn[p].refresh_token]]
                   /\ pc' = [pc EXCEPT ![p] = "rt_upsert"]
                \/ /\ hist' = [hist EXCEPT ![p] = [called EXCEPT !.fails = @ \cup {"refresh"}]]
                   /\ pc' = [pc EXCEPT ![p] = "rt_deactivate"]
                   /\ UNCHANGED <<issued, tok, conn>>
    /\ UNCHANGED <<now, calls, msg, teamData, summary, store, op, uid, queue, resp, ret, all, dead>>

\* refresh failed: s.db.DeactivateWHOOPConnection, its error dropped, then
\* the refresh error is returned
RT_Deactivate(p) ==
    /\ pc[p] = "rt_deactivate"
    /\ \/ /\ conns' = DeactivateWHOOPConnection(conns, conn[p].user_id)
          /\ SudReturn(p, op[p], hist[p], "err_refresh")
       \/ /\ UNCHANGED conns
          /\ SudReturn(p, op[p], [hist[p] EXCEPT !.fails = @ \cup {"deactivate"}], "err_refresh")
    /\ dead' = dead \cup {conn[p].user_id}
    /\ UNCHANGED <<now, issued, calls, msg, teamData, summary, recovery, sleep, strain, users, karma, karma_log, op, uid, queue, all>>

\* refresh succeeded: s.db.UpsertWHOOPConnection(connection)
RT_Upsert(p) ==
    /\ pc[p] = "rt_upsert"
    /\ \/ /\ conns' = UpsertWHOOPConnection(conns, conn[p])
          /\ hist' = [hist EXCEPT ![p].overwrote = @ \cup ReplacesConn(conn[p])]
          /\ pc' = [pc EXCEPT ![p] = "rec_fetch"]
          /\ tok' = [tok EXCEPT ![p] = NoTok]
          /\ UNCHANGED <<ret, conn, resp>>
       \/ /\ SudReturn(p, op[p], [hist[p] EXCEPT !.fails = @ \cup {"conn_write"}], "err_update")
          /\ UNCHANGED conns
    /\ UNCHANGED <<now, issued, calls, msg, teamData, summary, recovery, sleep, strain, users, karma, karma_log, op, uid, queue, all, dead>>

\* end := time.Now(); start := end.AddDate(0, 0, -2)
WindowOneDay(clock) == <<clock - Day, clock>>
Window(clock) == <<clock - 2 * Day, clock>>

\* the next_token the provider sends with a page of records: set when the
\* page is full, which is two records here
NextToken(recs) == IF Len(recs) >= 2 THEN <<"n">> ELSE <<>>

\* the access token a metric fetch sends: connection.AccessToken of the
\* connection RefreshTokenIfNeeded returned, loaded being the one it was given
FetchTokenLoaded(connection, loaded) == loaded.access_token
FetchToken(connection, loaded) == connection.access_token

\* the window of SyncUserData, then syncRecoveryData: s.client.GetRecovery
\* with the window
Rec_Fetch(p) ==
    /\ pc[p] = "rec_fetch"
    /\ \/ \E recs \in RecoveryPages :
            /\ resp' = [resp EXCEPT ![p] = recs]
            /\ hist' = [hist EXCEPT ![p] =
                  [@ EXCEPT !.fetched = @ \cup {"rec"}, !.recGot = recs,
                            !.window = Window(now),
                            !.requests = Append(@, "recovery"),
                            !.fetchToks = Append(@, FetchToken(conn[p], hist[p].rtIn))]]
            /\ pc' = [pc EXCEPT ![p] = IF recs = <<>> THEN "sleep_fetch" ELSE "rec_store"]
       \/ /\ hist' = [hist EXCEPT ![p] =
                  [@ EXCEPT !.fetched = @ \cup {"rec"}, !.fails = @ \cup {"rec_fetch"},
                            !.window = Window(now),
                            !.requests = Append(@, "recovery"),
                            !.fetchToks = Append(@, FetchToken(conn[p], hist[p].rtIn))]]
          /\ pc' = [pc EXCEPT ![p] = "sleep_fetch"]
          /\ UNCHANGED resp
    /\ UNCHANGED <<now, issued, calls, msg, teamData, summary, store, op, uid, conn, tok, queue, ret, all,
                   dead>>

\* syncRecoveryData: one turn of the loop, s.db.UpsertWHOOPRecovery
Rec_Store(p) ==
    /\ pc[p] = "rec_store"
    /\ LET row == RecoveryModel(conn[p], Head(resp[p]), now)
       IN  \/ /\ recovery' = UpsertWHOOPRecovery(recovery, row)
              /\ hist' = [hist EXCEPT ![p].overwrote =
                              @ \cup ReplacesMetric(recovery, row, "recovery"),
                                   ![p].recPut = Append(@, "ok")]
           \/ /\ hist' = [hist EXCEPT ![p].fails = @ \cup {"rec_write"},
                                   ![p].recPut = Append(@, "fail")]
              /\ UNCHANGED recovery
    /\ resp' = [resp EXCEPT ![p] = Tail(@)]
    /\ pc' = [pc EXCEPT ![p] = IF Tail(resp[p]) = <<>> THEN "sleep_fetch" ELSE "rec_store"]
    /\ UNCHANGED <<now, issued, calls, msg, teamData, summary, conns, sleep, strain, users, karma, karma_log, op, uid, conn, tok, queue, ret,
                   all, dead>>

\* syncSleepData: s.client.GetSleep
Sleep_Fetch(p) ==
    /\ pc[p] = "sleep_fetch"
    /\ \/ \E recs \in SleepPages :
            LET h == [hist[p] EXCEPT !.fetched = @ \cup {"sleep"}, !.sleepGot = recs,
                                     !.requests = Append(@, "sleep"),
                                     !.fetchToks = Append(@, FetchToken(conn[p], hist[p].rtIn))]
            IN  IF recs = <<>>
                THEN SudReturn(p, op[p], h, "ok")
                ELSE /\ hist' = [hist EXCEPT ![p] = h]
                     /\ resp' = [resp EXCEPT ![p] = recs]
                     /\ pc' = [pc EXCEPT ![p] = "sleep_store"]
                     /\ UNCHANGED <<ret, conn, tok>>
       \/ SudReturn(p, op[p], [hist[p] EXCEPT !.fetched = @ \cup {"sleep"},
                                               !.fails = @ \cup {"sleep_fetch"},
                                               !.requests = Append(@, "sleep"),
                                               !.fetchToks = Append(@, FetchToken(conn[p], hist[p].rtIn))],
                    "ok")
    /\ UNCHANGED <<now, issued, calls, msg, teamData, summary, store, op, uid, queue, all, dead>>

\* syncSleepData: one turn of the loop, s.db.UpsertWHOOPSleep
Sleep_Store(p) ==
    /\ pc[p] = "sleep_store"
    /\ LET row == SleepModel(conn[p], Head(resp[p]), now)
           last == Tail(resp[p]) = <<>>
           go(h) == IF last THEN SudReturn(p, op[p], h, "ok")
                    ELSE /\ hist' = [hist EXCEPT ![p] = h]
                         /\ resp' = [resp EXCEPT ![p] = Tail(@)]
                         /\ UNCHANGED <<pc, ret, conn, tok>>
       IN  \/ /\ sleep' = UpsertWHOOPSleep(sleep, row)
              /\ go([hist[p] EXCEPT !.overwrote = @ \cup ReplacesMetric(sleep, row, "sleep"),
                                    !.sleepPut = Append(@, "ok")])
           \/ /\ UNCHANGED sleep
              /\ go([hist[p] EXCEPT !.fails = @ \cup {"sleep_write"},
                                    !.sleepPut = Append(@, "fail")])
    /\ UNCHANGED <<now, issued, calls, msg, teamData, summary, conns, recovery, strain, users, karma, karma_log, op, uid, queue, all, dead>>

\* -------------------------------------------------------- SyncAllUsersData
\* the connections the loop still visits after a SyncUserData returned:
\* a failure is logged and the loop goes on
LoopRestAbort(rest, lastRet) == IF lastRet \in {"none", "ok"} THEN rest ELSE <<>>
LoopRest(rest, lastRet) == rest

\* what SyncAllUsersData returns after the loop: nil, whoever failed
SyncAllResultStrict(failedUsers) == IF failedUsers = {} THEN "ok" ELSE "err_sync"
SyncAllResult(failedUsers) == "ok"

\* entry of SyncAllUsersData: s.db.GetAllActiveWHOOPConnections()
SyncAllUsersData(p) ==
    /\ Begin(p, "SyncAllUsersData")
    /\ hist' = [hist EXCEPT ![p] = FreshHist]
    /\ \/ /\ queue' = [queue EXCEPT ![p] = GetAllActiveWHOOPConnections(conns)]
          /\ all' = [all EXCEPT ![p] =
                [FreshAll EXCEPT !.listed = {r.user_id : r \in {x \in RowsOf(conns) : x.active}}]]
          /\ pc' = [pc EXCEPT ![p] = "all_next"]
          /\ ret' = [ret EXCEPT ![p] = "none"]
       \/ /\ ret' = [ret EXCEPT ![p] = "err_list"]
          /\ all' = [all EXCEPT ![p] = [FreshAll EXCEPT !.listFailed = TRUE]]
          /\ UNCHANGED <<queue, pc>>
    /\ UNCHANGED <<now, issued, msg, teamData, summary, store, uid, conn, tok, resp, dead>>

\* one turn of the loop: the failure of the previous SyncUserData is logged,
\* then the next connection's SyncUserData starts, or the loop ends and
\* SyncAllUsersData returns
All_Next(p) ==
    /\ pc[p] = "all_next"
    /\ LET rest == LoopRest(queue[p], hist[p].sudRet)
           failedUsers == IF hist[p].sudRet \in {"none", "ok"} THEN all[p].failed
                          ELSE all[p].failed \cup {uid[p]}
       IN  IF rest = <<>>
           THEN /\ pc' = [pc EXCEPT ![p] = IF op[p] = "SendMorningStandup"
                                           THEN "standup_team" ELSE "idle"]
                /\ ret' = [ret EXCEPT ![p] = SyncAllResult(failedUsers)]
                /\ queue' = [queue EXCEPT ![p] = <<>>]
                /\ all' = [all EXCEPT ![p].failed = failedUsers]
                /\ UNCHANGED <<uid, conn, tok, resp, hist>>
           ELSE /\ queue' = [queue EXCEPT ![p] = Tail(rest)]
                /\ all' = [all EXCEPT ![p].failed = failedUsers,
                                      ![p].order = Append(@, Head(rest).user_id)]
                /\ SudEnterWith(p, "SyncAllUsersData", Head(rest).user_id,
                                TurnConnection(conns, Head(rest)))
    /\ UNCHANGED <<now, issued, calls, msg, teamData, summary, store, op, dead>>

\* -------------------------------------------------------- SendMorningStandup
\* the orders in which a query without ORDER BY may return the rows
SeqsOf(rows) ==
    {q \in [1..Cardinality(rows) -> rows] : \A i, j \in DOMAIN q : q[i] = q[j] => i = j}

\* the test of SendMorningStandup that skips the message
SkipsStandup(rows) == Cardinality(rows) = 0

\* entry of SendMorningStandup: h.whoopService.SyncAllUsersData(), whose error
\* is logged
SendMorningStandup(p) ==
    /\ Begin(p, "SendMorningStandup")
    /\ hist' = [hist EXCEPT ![p] = FreshHist]
    /\ msg' = [msg EXCEPT ![p] = <<>>]
    /\ ret' = [ret EXCEPT ![p] = "none"]
    /\ \/ /\ queue' = [queue EXCEPT ![p] = GetAllActiveWHOOPConnections(conns)]
          /\ all' = [all EXCEPT ![p] =
                [FreshAll EXCEPT !.listed = {r.user_id : r \in {x \in RowsOf(conns) : x.active}}]]
          /\ pc' = [pc EXCEPT ![p] = "all_next"]
       \/ /\ all' = [all EXCEPT ![p] = [FreshAll EXCEPT !.listFailed = TRUE]]
          /\ pc' = [pc EXCEPT ![p] = "standup_team"]
          /\ UNCHANGED queue
    /\ UNCHANGED <<now, issued, teamData, summary, store, uid, conn, tok, resp, dead>>

\* h.db.GetTeamWHOOPDataForStandup(), the skip test, FormatMorningStandup and
\* h.sendMessage, whose error is logged
Standup_Post(p) ==
    /\ pc[p] = "standup_team"
    /\ pc' = [pc EXCEPT ![p] = "idle"]
    /\ LET team == GetTeamWHOOPDataForStandup(users, conns, recovery, sleep, strain)
       IN  \/ /\ ret' = [ret EXCEPT ![p] = "err_team"]
              /\ UNCHANGED msg
           \/ /\ ~team.err
              /\ IF SkipsStandup(team.rows)
                 THEN /\ ret' = [ret EXCEPT ![p] = "skipped"]
                      /\ UNCHANGED msg
                 ELSE \/ /\ \E rows \in SeqsOf(team.rows) :
                               msg' = [msg EXCEPT ![p] = FormatMorningStandup(rows, now)]
                         /\ ret' = [ret EXCEPT ![p] = "sent"]
                      \/ /\ ret' = [ret EXCEPT ![p] = "err_send"]
                         /\ UNCHANGED msg
    /\ UNCHANGED <<now, issued, calls, teamData, summary, store, op, uid, conn, tok,
                   queue, resp, hist, all, dead>>

\* the steps of the morning standup on goroutine p
StandupStep(p) ==
    \/ SendMorningStandup(p)
    \/ All_Next(p)
    \/ RT_Refresh(p)
    \/ RT_Deactivate(p)
    \/ RT_Upsert(p)
    \/ Rec_Fetch(p)
    \/ Rec_Store(p)
    \/ Sleep_Fetch(p)
    \/ Sleep_Store(p)
    \/ Standup_Post(p)

\* ------------------------------------------------------------ DisconnectUser
\* s.db.DeactivateWHOOPConnection(userID), its error returned
DisconnectUser(p, userID) ==
    /\ Begin(p, "DisconnectUser")
    /\ hist' = [hist EXCEPT ![p] = FreshHist]
    /\ uid' = [uid EXCEPT ![p] = userID]
    /\ \/ /\ conns' = DeactivateWHOOPConnection(conns, userID)
          /\ ret' = [ret EXCEPT ![p] = "ok"]
       \/ /\ ret' = [ret EXCEPT ![p] = "err_store"]
          /\ UNCHANGED conns
    /\ all' = [all EXCEPT ![p] = FreshAll]
    /\ UNCHANGED <<now, issued, msg, teamData, summary, recovery, sleep, strain, users, karma, karma_log, pc, conn, tok, queue,
                   resp, dead>>

\* --------------------------------------------------------- GetUserLatestData
\* s.GetUserLatestData(userID): three reads, each of which may fail; the call
\* writes nothing and is not counted in calls
GetUserLatestData_Call(p, userID) ==
    /\ pc[p] = "idle"
    /\ op' = [op EXCEPT ![p] = "GetUserLatestData"]
    /\ uid' = [uid EXCEPT ![p] = userID]
    /\ ret' = [ret EXCEPT ![p] = "ok"]
    /\ \E readable \in SUBSET Metrics :
          hist' = [hist EXCEPT ![p] =
              [FreshHist EXCEPT
                  !.data = GetUserLatestData(recovery, sleep, strain, userID, readable),
                  !.readable = readable]]
    /\ all' = [all EXCEPT ![p] = FreshAll]
    /\ UNCHANGED <<now, issued, calls, msg, teamData, summary, store, pc, conn, tok,
                   queue, resp, dead>>

\* -------------------------------------------------- handleWHOOPStatusCommand
\* entry of /whoop-status: h.whoopService.GetConnectionStatus(cmd.UserID)
handleWHOOPStatusCommand(p, userID) ==
    /\ Begin(p, "handleWHOOPStatusCommand")
    /\ uid' = [uid EXCEPT ![p] = userID]
    /\ hist' = [hist EXCEPT ![p] = FreshHist]
    /\ all' = [all EXCEPT ![p] = FreshAll]
    /\ ret' = [ret EXCEPT ![p] = "none"]
    /\ \/ /\ GetWHOOPConnection(conns, userID) # NoConn
          /\ pc' = [pc EXCEPT ![p] = "status_sync"]
          /\ UNCHANGED msg
       \/ /\ msg' = [msg EXCEPT ![p] = <<[part |-> "not_connected"]>>]
          /\ UNCHANGED pc
    /\ UNCHANGED <<now, issued, teamData, summary, store, conn, tok, queue, resp, dead>>

\* h.whoopService.SyncUserData(cmd.UserID)
Status_Sync(p) ==
    /\ pc[p] = "status_sync"
    /\ SudEnter(p, op[p], uid[p])
    /\ UNCHANGED <<now, issued, calls, msg, teamData, summary, store, op, queue, all, dead>>

\* after SyncUserData returned: the failure response, or GetUserLatestData,
\* h.client.GetUserInfo (its failure skipped) and FormatUserStatus
Status_Respond(p) ==
    /\ pc[p] = "status_respond"
    /\ pc' = [pc EXCEPT ![p] = "idle"]
    /\ IF hist[p].sudRet # "ok"
       THEN msg' = [msg EXCEPT ![p] = <<[part |-> "sync_failed"]>>]
       ELSE \E readable \in SUBSET Metrics :
              LET userData == GetUserLatestData(recovery, sleep, strain, uid[p], readable)
              IN  \/ msg' = [msg EXCEPT ![p] =
                          FormatUserStatus(WithUserInfo(userData, uid[p], uid[p]))]
                  \/ msg' = [msg EXCEPT ![p] = FormatUserStatus(userData)]
    /\ UNCHANGED <<now, issued, calls, teamData, summary, store, op, uid, conn, tok,
                   queue, resp, ret, hist, all, dead>>

\* the steps of the /whoop-status command of goroutine p
StatusStep(p) ==
    \/ \E u \in Users : handleWHOOPStatusCommand(p, u)
    \/ Status_Sync(p)
    \/ Status_Respond(p)

\* ------------------------------------------------------------ handleThankYou
\* a message event of user userID that thanks somebody: h.db.UpsertUser with
\* the sender's user info, its error dropped
handleThankYou(p, userID) ==
    /\ pc[p] = "idle"
    /\ \/ users' = UpsertUser(users, userID)
       \/ UNCHANGED users
    /\ UNCHANGED <<now, issued, calls, msg, teamData, summary, conns, recovery, sleep, strain, karma,
                   karma_log, pc, op, uid, conn, tok, queue, resp, ret, hist, all, dead>>

\* -------------------------------------------------------------------- karma
\* h.botID, the user id of the bot
BotID == <<"B", "0">>

\* the user ids karmaRegex finds in a message, in order
KarmaMessages ==
    LET ids == Users \cup {BotID}
    IN  {<<a>> : a \in ids} \cup {<<a, b>> : a \in ids, b \in ids}

\* what happens to the transaction of IncrementKarma: it commits, or one of
\* Begin, the karma statement, the karma_log statement and Commit fails
TxOutcomes == {"ok", "begin", "update", "log", "commit"}

\* INSERT INTO karma ... VALUES (?, ?, 1, ?) ON CONFLICT(user_id) DO UPDATE
\* SET score = score + 1
BumpKarma(tbl, userID) ==
    IF \E r \in tbl : r.user_id = userID
    THEN {IF r.user_id = userID THEN [r EXCEPT !.score = @ + 1] ELSE r : r \in tbl}
    ELSE tbl \cup {[user_id |-> userID, score |-> 1]}

\* INSERT INTO karma_log (user_id, given_by, reason, change, ...) VALUES (?, ?, ?, 1, ...)
LogKarma(log, userID, givenBy) ==
    Append(log, [user_id |-> userID, given_by |-> givenBy, change |-> 1])

\* IncrementKarma on the tables db: both statements run in one transaction,
\* which defer tx.Rollback() undoes unless Commit succeeded
IncrementKarmaNoRollback(db, userID, givenBy, outcome) ==
    CASE outcome = "ok" ->
            [karma |-> BumpKarma(db.karma, userID), log |-> LogKarma(db.log, userID, givenBy)]
      [] outcome \in {"log", "commit"} ->
            [karma |-> BumpKarma(db.karma, userID), log |-> db.log]
      [] OTHER -> db
IncrementKarma(db, userID, givenBy, outcome) ==
    IF outcome = "ok"
    THEN [karma |-> BumpKarma(db.karma, userID), log |-> LogKarma(db.log, userID, givenBy)]
    ELSE db

\* the sender of a match may give karma to its target: not to themselves and
\* not to the bot
MayGive(sender, target) == target # sender /\ target # BotID

RECURSIVE KarmaLoop(_, _, _, _, _)
\* the loop of handleKarmaIncrements over the matches from index i on: a
\* refused match is answered and skipped; a match whose GetUserInfo fails is
\* skipped; otherwise UpsertUser (its error dropped) and IncrementKarma run
\* and the match is answered.  acc holds the tables and the answers so far.
KarmaLoop(acc, sender, targets, outcomes, i) ==
    IF i > Len(targets) THEN acc
    ELSE LET t == targets[i]
             o == outcomes[i]
             next ==
                IF ~MayGive(sender, t)
                THEN [acc EXCEPT !.msg = Append(@, [part |-> "karma_refused", user |-> t])]
                ELSE IF ~o.info THEN acc
                ELSE LET db == IncrementKarma([karma |-> acc.karma, log |-> acc.log],
                                              t, sender, o.tx)
                     IN  [users |-> IF o.user THEN UpsertUser(acc.users, t) ELSE acc.users,
                          karma |-> db.karma,
                          log   |-> db.log,
                          msg   |-> Append(acc.msg,
                                      [part |-> IF o.tx = "ok" THEN "karma_given"
                                                ELSE "karma_error",
                                       user |-> t])]
         IN  KarmaLoop(next, sender, targets, outcomes, i + 1)

\* handleMessage for a message of user sender (handleMessage drops the
\* messages of the bot itself) whose text has the matches targets:
\* handleKarmaIncrements, on the event goroutine
handleKarmaIncrements(p, sender, targets) ==
    /\ pc[p] = "idle"
    /\ Len(karma_log) + Len(targets) <= MaxKarma
    /\ \E outcomes \in [DOMAIN targets ->
                            [info : BOOLEAN, user : BOOLEAN, tx : TxOutcomes]] :
          LET r == KarmaLoop([users |-> users, karma |-> karma, log |-> karma_log,
                              msg |-> <<>>], sender, targets, outcomes, 1)
          IN  /\ users' = r.users
              /\ karma' = r.karma
              /\ karma_log' = r.log
              /\ msg' = [msg EXCEPT ![p] = r.msg]
    /\ op' = [op EXCEPT ![p] = "handleKarmaIncrements"]
    /\ hist' = [hist EXCEPT ![p] = [FreshHist EXCEPT !.req = <<sender, targets>>]]
    /\ UNCHANGED <<now, issued, calls, teamData, summary, conns, recovery, sleep, strain, pc, uid,
                   conn, tok, queue, resp, ret, all, dead>>

\* messages with karma syntax arrive on the event goroutine
NextKarma ==
    \E sender \in Users, targets \in KarmaMessages :
        handleKarmaIncrements("cmd", sender, targets)

SpecKarma == Init /\ [][NextKarma]_vars

\* ------------------------------------------------------------ specification
Step(p) ==
    \/ \E state \in StateInputs : HandleOAuthCallback(p, state)
    \/ CB_Exchange(p)
    \/ CB_Profile(p)
    \/ CB_Upsert(p)
    \/ \E u \in Users : SyncUserData(p, u)
    \/ RT_Refresh(p)
    \/ RT_Deactivate(p)
    \/ RT_Upsert(p)
    \/ Rec_Fetch(p)
    \/ Rec_Store(p)
    \/ Sleep_Fetch(p)
    \/ Sleep_Store(p)
    \/ SyncAllUsersData(p)
    \/ All_Next(p)
    \/ \E u \in Users : DisconnectUser(p, u)

\* one goroutine at a time: service calls do not overlap
Next == Tick \/ Step("cmd")

Spec == Init /\ [][Next]_vars

\* the cron goroutine runs the morning standup, which calls SyncAllUsersData
CronStep ==
    \/ SyncAllUsersData("cron")
    \/ All_Next("cron")
    \/ RT_Refresh("cron")
    \/ RT_Deactivate("cron")
    \/ RT_Upsert("cron")
    \/ Rec_Fetch("cron")
    \/ Rec_Store("cron")
    \/ Sleep_Fetch("cron")
    \/ Sleep_Store("cron")

\* the command goroutine and the cron goroutine interleave at every store
\* call and every provider call
NextConc == Tick \/ Step("cmd") \/ CronStep

SpecConc == Init /\ [][NextConc]_vars

\* the command goroutine also handles /whoop-status and the message events
\* that fill table users
NextTeam == Next \/ StatusStep("cmd") \/ \E u \in Users : handleThankYou("cmd", u)

SpecTeam == Init /\ [][NextTeam]_vars

\* calculateTeamSummary applied to the team data
Summarize ==
    /\ summary = NoSummary
    /\ summary' = <<calculateTeamSummary(teamData)>>
    /\ UNCHANGED <<now, issued, calls, msg, teamData, store, pc, op, uid, conn, tok,
                   queue, resp, ret, hist, all, dead>>

\* FormatMorningStandup applied to the team data
FormatStandup ==
    /\ msg["cron"] = <<>>
    /\ msg' = [msg EXCEPT !["cron"] = FormatMorningStandup(teamData, now)]
    /\ UNCHANGED <<now, issued, calls, teamData, summary, store, pc, op, uid, conn, tok,
                   queue, resp, ret, hist, all, dead>>

\* what connects and disconnects users and fills table users, on the command
\* goroutine
MemberStep(p) ==
    \/ \E state \in StateInputs : HandleOAuthCallback(p, state)
    \/ CB_Exchange(p)
    \/ CB_Profile(p)
    \/ CB_Upsert(p)
    \/ \E u \in Users : DisconnectUser(p, u)
    \/ \E u \in Users : handleThankYou(p, u)

\* the members' steps on the command goroutine and the morning standup, which
\* does the syncing, on the cron goroutine, one of the two at a time
NextStandup ==
    \/ Tick
    \/ pc["cron"] = "idle" /\ MemberStep("cmd")
    \/ pc["cmd"] = "idle" /\ StandupStep("cron")

SpecStandup == Init /\ [][NextStandup]_vars

\* the callback endpoint, with disconnects in between
NextHTTP ==
    \/ Tick
    \/ \E code \in Codes, state \in StateInputs \cup {<<>>} :
          handleCallback("cmd", code, state)
    \/ CB_Exchange("cmd")
    \/ CB_Profile("cmd")
    \/ CB_Upsert("cmd")
    \/ Http_Respond("cmd")
    \/ \E u \in Users : DisconnectUser("cmd", u)

SpecHTTP == Init /\ [][NextHTTP]_vars

\* the service with GetUserLatestData called for any user
NextLatest == Next \/ \E u \in Users : GetUserLatestData_Call("cmd", u)

SpecLatest == Init /\ [][NextLatest]_vars

\* syncSleepData in its loop over the one record the provider answered with,
\* in a SyncUserData of user U1 connected with the first token pair
InitSleep ==
    LET c == [user_id       |-> U1,
              whoop_user_id |-> FmtInt(7),
              access_token  |-> AccessTok(1),
              refresh_token |-> RefreshTok(1),
              expires_at    |-> StartTime + 2,
              connected_at  |-> StartTime,
              active        |-> TRUE]
    IN  /\ now = StartTime
        /\ issued = 1
        /\ calls = 1
        /\ msg = [p \in Procs |-> <<>>]
        /\ teamData = <<>>
        /\ summary = NoSummary
        /\ conns = <<c>>
        /\ recovery = {}
        /\ sleep = {}
        /\ strain = {}
        /\ users = {}
        /\ karma = {}
        /\ karma_log = <<>>
    /\ karma = {}
    /\ karma_log = <<>>
        /\ pc = [p \in Procs |-> IF p = "cmd" THEN "sleep_store" ELSE "idle"]
        /\ op = [p \in Procs |-> IF p = "cmd" THEN "SyncUserData" ELSE "none"]
        /\ uid = [p \in Procs |-> IF p = "cmd" THEN U1 ELSE <<>>]
        /\ conn = [p \in Procs |-> IF p = "cmd" THEN c ELSE NoConn]
        /\ tok = [p \in Procs |-> NoTok]
        /\ queue = [p \in Procs |-> <<>>]
        /\ \E s \in SleepInputs :
              /\ resp = [p \in Procs |-> IF p = "cmd" THEN <<s>> ELSE <<>>]
              /\ hist = [p \in Procs |->
                            IF p = "cmd"
                            THEN [FreshHist EXCEPT !.rtIn = c, !.rtNow = StartTime,
                                                   !.fetched = {"rec", "sleep"},
                                                   !.sleepGot = <<s>>,
                                                   !.window = Window(StartTime),
                                                   !.requests = <<"recovery", "sleep">>,
                                                   !.fetchToks = <<c.access_token, c.access_token>>]
                            ELSE FreshHist]
        /\ ret = [p \in Procs |-> "none"]
        /\ all = [p \in Procs |-> FreshAll]
        /\ dead = {}

NextSleep == Sleep_Store("cmd")

SpecSleep == InitSleep /\ [][NextSleep]_vars

\* the formatter applied to each team data of TeamInputs
InitSummary == InitService /\ teamData \in TeamInputs

NextSummary == Summarize \/ FormatStandup

SpecSummary == InitSummary /\ [][NextSummary]_vars

\* --------------------------------------------------------------- properties
\* positions inside RefreshTokenIfNeeded after its test, and after it returned
AfterTestPcs == {"rt_deactivate", "rt_upsert", "rec_fetch", "rec_store",
                 "sleep_fetch", "sleep_store"}

\* positions inside a running SyncUserData, after its connection was loaded
SudPcs == {"rt_check"} \cup AfterTestPcs

\* SyncUserData of goroutine p has just returned
Returned(p) == pc[p] \in {"idle", "all_next"} /\ hist[p].sudRet # "none"

ConnRowsOf(u) == {r \in RowsOf(conns) : r.user_id = u}
RecoveryOf(u) == {r \in recovery : r.user_id = u}
SleepOf(u) == {r \in sleep : r.user_id = u}

\* C1: RefreshTokenIfNeeded on a connection with expiry <= now + 1h calls the
\* provider refresh exactly once; with expiry > now + 1h it calls it never and
\* hands the connection back unchanged.
C1_RefreshExactlyWhenDue ==
    \A p \in Procs :
        pc[p] \in AfterTestPcs =>
            LET h == hist[p]
            IN  /\ h.rtIn.expires_at <= h.rtNow + Hour => h.refreshCalls = 1
                /\ h.rtIn.expires_at > h.rtNow + Hour =>
                      /\ h.refreshCalls = 0
                      /\ pc[p] \notin {"rt_deactivate", "rt_upsert"}
                      /\ conn[p] = h.rtIn

\* a refresh was made for a connection expiring exactly one hour from now
C1_Witness ==
    \E p \in Procs :
        /\ pc[p] = "rt_upsert"
        /\ hist[p].refreshCalls = 1
        /\ hist[p].rtIn.expires_at = hist[p].rtNow + Hour

\* C2: when the refresh call fails, the stored connection of the user is
\* inactive by the time SyncUserData returns the refresh error (so that the
\* next SyncUserData of the user finds no connection).
C2_FailedRefreshDeactivates ==
    \A p \in Procs :
        (Returned(p) /\ hist[p].sudRet = "err_refresh") =>
            \A r \in ConnRowsOf(uid[p]) : ~r.active

\* C3: after a failed refresh for a user no provider call (refresh or fetch)
\* is made for that user until a callback for the user succeeds.
C3_NoProviderCallWhileDead ==
    \A p \in Procs :
        (pc[p] \in SudPcs /\ uid[p] \in dead) =>
            hist[p].refreshCalls = 0 /\ hist[p].fetched = {}

\* C4: the store never holds two connection rows of the same user, hence
\* never two active ones.
C4_OneConnectionPerUser ==
    \A i, j \in DOMAIN conns : conns[i].user_id = conns[j].user_id => i = j

\* an upsert has replaced a differing connection row of its user
C4_Witness ==
    \E p \in Procs :
        /\ "conn" \in hist[p].overwrote
        /\ ConnRowsOf(uid[p]) # {}

\* the stored row of key (u, date) carries the values of provider record rec
\* (the ingestion time left aside)
HoldsRecovery(u, rec) ==
    \E x \in recovery :
        [x EXCEPT !.created_at = 0] = RecoveryModel([user_id |-> u], rec, 0)
HoldsSleep(u, rec) ==
    \E x \in sleep :
        [x EXCEPT !.created_at = 0] = SleepModel([user_id |-> u], rec, 0)

\* record i of page got is the last one of its day in the page
LastOfDayRecovery(got, i) ==
    \A j \in DOMAIN got :
        j > i => Truncate(got[j].created_at) # Truncate(got[i].created_at)
LastOfDaySleep(got, i) ==
    \A j \in DOMAIN got : j > i => Truncate(got[j].end) # Truncate(got[i].end)

\* record i of page got is the last one of its day whose write the store accepted
LastAcceptedRecovery(got, put, i) ==
    /\ put[i] = "ok"
    /\ \A j \in DOMAIN got :
          (j > i /\ put[j] = "ok") =>
              Truncate(got[j].created_at) # Truncate(got[i].created_at)
LastAcceptedSleep(got, put, i) ==
    /\ put[i] = "ok"
    /\ \A j \in DOMAIN got :
          (j > i /\ put[j] = "ok") => Truncate(got[j].end) # Truncate(got[i].end)

\* C5 as stated: a failed fetch of one metric type leaves SyncUserData
\* successful and the records of the other type of that sync stored.
C5_OtherMetricStored ==
    \A p \in Procs :
        Returned(p) =>
            LET h == hist[p]
            IN  /\ "rec_fetch" \in h.fails =>
                      /\ h.sudRet = "ok"
                      /\ "sleep" \in h.fetched
                      /\ \A i \in DOMAIN h.sleepGot :
                            LastOfDaySleep(h.sleepGot, i) => HoldsSleep(uid[p], h.sleepGot[i])
                /\ "sleep_fetch" \in h.fails =>
                      /\ h.sudRet = "ok"
                      /\ "rec" \in h.fetched
                      /\ \A i \in DOMAIN h.recGot :
                            LastOfDayRecovery(h.recGot, i) => HoldsRecovery(uid[p], h.recGot[i])

\* C5: a failed fetch of one metric type leaves SyncUserData successful; the
\* other type is fetched, each of its records is handed to the store, and
\* each record whose write the store accepts is stored.
C5_OtherMetricUpserted ==
    \A p \in Procs :
        Returned(p) =>
            LET h == hist[p]
            IN  /\ "rec_fetch" \in h.fails =>
                      /\ h.sudRet = "ok"
                      /\ "sleep" \in h.fetched
                      /\ Len(h.sleepPut) = Len(h.sleepGot)
                      /\ \A i \in DOMAIN h.sleepGot :
                            LastAcceptedSleep(h.sleepGot, h.sleepPut, i) =>
                                HoldsSleep(uid[p], h.sleepGot[i])
                /\ "sleep_fetch" \in h.fails =>
                      /\ h.sudRet = "ok"
                      /\ "rec" \in h.fetched
                      /\ Len(h.recPut) = Len(h.recGot)
                      /\ \A i \in DOMAIN h.recGot :
                            LastAcceptedRecovery(h.recGot, h.recPut, i) =>
                                HoldsRecovery(uid[p], h.recGot[i])

\* the recovery fetch failed and the sleep records of the same sync were stored
C5_Witness ==
    \E p \in Procs :
        /\ Returned(p)
        /\ "rec_fetch" \in hist[p].fails
        /\ hist[p].sleepPut = <<"ok", "ok">>
        /\ SleepOf(uid[p]) # {}

\* C6 as stated: SyncUserData returns an error only when the connection
\* could not be loaded or the refresh call failed.
C6_ErrorOnlyLoadOrRefresh ==
    \A p \in Procs :
        (Returned(p) /\ hist[p].sudRet # "ok") =>
            hist[p].fails \cap {"load", "refresh"} # {}

\* C6: SyncUserData returns an error exactly when the connection could not be
\* loaded, the refresh call failed, or the refreshed connection could not be
\* written; failed metric fetches and metric writes leave it successful.
C6_ErrorOnlyLoadRefreshOrUpdate ==
    \A p \in Procs :
        Returned(p) =>
            (hist[p].sudRet # "ok" <=>
                hist[p].fails \cap {"load", "refresh", "conn_write"} # {})

\* SyncUserData returned success although a fetch and a metric write failed
C6_Witness ==
    \E p \in Procs :
        /\ Returned(p)
        /\ hist[p].sudRet = "ok"
        /\ {"rec_write", "sleep_fetch"} \subseteq hist[p].fails

\* SyncAllUsersData of goroutine p has returned
AllReturned(p) == pc[p] = "idle" /\ op[p] = "SyncAllUsersData"

\* C7 as stated: SyncAllUsersData never returns an error.
C7_NeverFails ==
    \A p \in Procs : AllReturned(p) => ret[p] = "ok"

\* C7: SyncAllUsersData returns an error exactly when listing the active
\* connections fails, and then no user was synced; failures of the users'
\* syncs never make it return an error.
C7_FailsOnlyOnListing ==
    \A p \in Procs :
        AllReturned(p) =>
            /\ ret[p] \in {"ok", "err_list"}
            /\ ret[p] = "err_list" <=> all[p].listFailed
            /\ all[p].listFailed => all[p].order = <<>>

\* SyncAllUsersData returned nil although a user's sync had failed
C7_Witness ==
    \E p \in Procs :
        /\ AllReturned(p)
        /\ ret[p] = "ok"
        /\ all[p].failed # {}

\* number of SyncUserData attempts for user u in an attempt sequence
Attempts(order, u) == Cardinality({i \in DOMAIN order : order[i] = u})

\* C8: in one SyncAllUsersData every connection listed as active gets exactly
\* one SyncUserData attempt, also after an earlier user's sync failed; nobody
\* is attempted twice and nobody outside the list is attempted.
C8_OneAttemptEach ==
    \A p \in Procs :
        /\ \A u \in Users :
              /\ Attempts(all[p].order, u) <= 1
              /\ u \notin all[p].listed => Attempts(all[p].order, u) = 0
        /\ (AllReturned(p) /\ ~all[p].listFailed) =>
              \A u \in all[p].listed : Attempts(all[p].order, u) = 1

\* both users were listed, the first one's sync failed, the second was attempted
C8_Witness ==
    \E p \in Procs :
        /\ AllReturned(p)
        /\ all[p].listed = Users
        /\ Len(all[p].order) = 2
        /\ all[p].order[1] \in all[p].failed

\* C9: no step of user A's SyncUserData, failed or not, changes a connection
\* row or a metric row of another user B.
C9_OtherUsersUntouched ==
    [][\A p \in Procs :
          pc[p] \in SudPcs =>
              \A b \in Users \ {uid[p]} :
                  /\ ConnRowsOf(b)' = ConnRowsOf(b)
                  /\ RecoveryOf(b)' = RecoveryOf(b)
                  /\ SleepOf(b)' = SleepOf(b)]_vars

\* inside SyncAllUsersData a user's sync failed with deactivation while
\* another user holds an active connection and metric rows
C9_Witness ==
    \E p \in Procs :
        /\ op[p] = "SyncAllUsersData"
        /\ Returned(p)
        /\ hist[p].sudRet = "err_refresh"
        /\ \A r \in ConnRowsOf(uid[p]) : ~r.active
        /\ \E b \in Users \ {uid[p]} :
              /\ \E r \in ConnRowsOf(b) : r.active
              /\ RecoveryOf(b) # {}

\* at most one row per (user, date)
UniquePerDay(tbl) ==
    \A x, y \in tbl : (x.user_id = y.user_id /\ x.date = y.date) => x = y

\* the step from tbl to tbl2 is the upsert of row: row is the only row of its
\* (user, date), every other key keeps its rows
IsUpsertOf(tbl, tbl2, row) ==
    /\ row \in tbl2
    /\ \A x \in tbl2 : (x.user_id = row.user_id /\ x.date = row.date) => x = row
    /\ \A x \in tbl \cup tbl2 :
          ~(x.user_id = row.user_id /\ x.date = row.date) => (x \in tbl <=> x \in tbl2)

\* C10: an accepted upsert of a recovery (sleep) record leaves exactly one
\* row for its (user, date), carrying the values of that upsert, and the
\* tables never hold two rows of one (user, date).
C10_UpsertPerUserDay ==
    [][/\ UniquePerDay(recovery') /\ UniquePerDay(sleep')
       /\ \A p \in Procs :
            /\ (pc[p] = "rec_store" /\ recovery' # recovery) =>
                  IsUpsertOf(recovery, recovery',
                             RecoveryModel(conn[p], Head(resp[p]), now))
            /\ (pc[p] = "sleep_store" /\ sleep' # sleep) =>
                  IsUpsertOf(sleep, sleep', SleepModel(conn[p], Head(resp[p]), now))]_vars

\* one sync has overwritten a recovery row and a sleep row with other scores
C10_Witness ==
    \E p \in Procs :
        /\ {"recovery", "sleep"} \subseteq hist[p].overwrote
        /\ Cardinality(RecoveryOf(uid[p])) = 1
        /\ Cardinality(SleepOf(uid[p])) = 1

\* the provider records whose write the store accepted in the call h records
RecWrites(h) == {h.recGot[i] : i \in {k \in DOMAIN h.recPut : h.recPut[k] = "ok"}}
SleepWrites(h) == {h.sleepGot[i] : i \in {k \in DOMAIN h.sleepPut : h.sleepPut[k] = "ok"}}

\* after the syncs of both goroutines for user u returned: each (u, date) that
\* both wrote has one row, and it carries the values of one of their writes
C11_OneWholeRecord ==
    \A u \in Users :
        (\A p \in Procs : Returned(p) /\ uid[p] = u) =>
            LET sw == SleepWrites(hist["cmd"]) \cup SleepWrites(hist["cron"])
                rw == RecWrites(hist["cmd"]) \cup RecWrites(hist["cron"])
            IN  /\ \A a \in SleepWrites(hist["cmd"]), b \in SleepWrites(hist["cron"]) :
                      Truncate(a.end) = Truncate(b.end) =>
                          \E x \in sleep :
                              /\ x.user_id = u /\ x.date = Truncate(a.end)
                              /\ \A y \in sleep :
                                    (y.user_id = u /\ y.date = x.date) => y = x
                              /\ \E w \in sw :
                                    [x EXCEPT !.created_at = 0] =
                                        SleepModel([user_id |-> u], w, 0)
                /\ \A a \in RecWrites(hist["cmd"]), b \in RecWrites(hist["cron"]) :
                      Truncate(a.created_at) = Truncate(b.created_at) =>
                          \E x \in recovery :
                              /\ x.user_id = u /\ x.date = Truncate(a.created_at)
                              /\ \A y \in recovery :
                                    (y.user_id = u /\ y.date = x.date) => y = x
                              /\ \E w \in rw :
                                    [x EXCEPT !.created_at = 0] =
                                        RecoveryModel([user_id |-> u], w, 0)

\* every change of a metric table is the upsert of the whole row of one
\* goroutine's write
C11_WholeRowSteps ==
    [][/\ sleep' # sleep =>
             \E p \in Procs :
                 /\ pc[p] = "sleep_store"
                 /\ IsUpsertOf(sleep, sleep', SleepModel(conn[p], Head(resp[p]), now))
       /\ recovery' # recovery =>
             \E p \in Procs :
                 /\ pc[p] = "rec_store"
                 /\ IsUpsertOf(recovery, recovery',
                               RecoveryModel(conn[p], Head(resp[p]), now))]_vars

\* C11: two SyncUserData executions for one user that interleave and write
\* the same (user, date) leave exactly one row for that key, and all fields
\* of the row come from a single one of the writes, in every interleaving.
C11_LastWriteWins == []C11_OneWholeRecord /\ C11_WholeRowSteps

\* the team sync has stored both sleep records of a user; the single-user
\* sync of the same user, started before the team sync ended, has since
\* replaced the row by its own first record and still holds its second
C11_Witness ==
    /\ op["cron"] = "SyncAllUsersData" /\ Returned("cron")
    /\ hist["cron"].sleepPut = <<"ok", "ok">>
    /\ op["cmd"] = "SyncUserData" /\ pc["cmd"] = "sleep_store"
    /\ uid["cmd"] = uid["cron"]
    /\ hist["cmd"].sleepPut = <<"ok">>
    /\ HoldsSleep(uid["cmd"], S31)
    /\ Cardinality(SleepOf(uid["cmd"])) = 1

\* positions inside HandleOAuthCallback after the state was accepted
CallbackPcs == {"cb_exchange", "cb_profile", "cb_upsert"}

\* C12: the state GetAuthURL builds for a user id (non-empty, no colon) has
\* the id as its prefix up to the first colon; HandleOAuthCallback given that
\* state reads the id back, keeps it through the exchange and the profile
\* fetch, and the connection it stores carries that id.
C12_StateRoundTrip ==
    [][\A p \in Procs :
          /\ \A u \in Users, pair \in HexPairs :
                LET state == AuthState(u, pair)
                IN  /\ FirstColon(state) = Len(u) + 1
                    /\ SubSeq(state, 1, FirstColon(state) - 1) = u
                    /\ HandleOAuthCallback(p, state) =>
                          (pc'[p] = "cb_exchange" /\ uid'[p] = u)
          /\ pc[p] \in CallbackPcs =>
                /\ uid'[p] = uid[p]
                /\ pc'[p] = "cb_upsert" => conn'[p].user_id = uid[p]
          /\ (pc[p] = "cb_upsert" /\ ret'[p] = "ok") =>
                \E r \in RowsOf(conns') :
                    r.user_id = uid[p] /\ r.active /\ r = conn[p]]_vars

\* a callback with the state built for U2 has stored U2's connection
C12_Witness ==
    \E p \in Procs :
        /\ op[p] = "HandleOAuthCallback" /\ pc[p] = "idle" /\ ret[p] = "ok"
        /\ uid[p] = U2
        /\ \E r \in ConnRowsOf(U2) : r.active

\* HandleOAuthCallback returns the state error in this step, having made no
\* provider call and no store write
RejectedAtOnce(p) ==
    /\ ret'[p] = "err_state"
    /\ pc'[p] = "idle"
    /\ issued' = issued
    /\ UNCHANGED store

\* C13 as stated: every state of fewer than 10 characters, and every state
\* without a colon, is rejected before any exchange, fetch or write.
C13_ShortOrColonlessRejected ==
    [][\A p \in Procs : \A state \in StateInputs :
          ((Len(state) < MinStateLen \/ FirstColon(state) = 0)
             /\ HandleOAuthCallback(p, state)) => RejectedAtOnce(p)]_vars

\* C13: every state of fewer than 10 bytes, and every state without a colon,
\* is rejected before any exchange, fetch or write; a rejected call stays
\* finished.
C13_ShortBytesOrColonlessRejected ==
    [][\A p \in Procs :
          /\ \A state \in StateInputs :
                ((ByteLen(state) < MinStateLen \/ FirstColon(state) = 0)
                   /\ HandleOAuthCallback(p, state)) => RejectedAtOnce(p)
          /\ (ret[p] = "err_state" /\ calls' = calls) =>
                (pc'[p] = "idle" /\ UNCHANGED <<issued, store>>)]_vars

\* a callback was rejected for its state while a connection was stored
C13_Witness ==
    \E p \in Procs :
        /\ op[p] = "HandleOAuthCallback" /\ ret[p] = "err_state" /\ pc[p] = "idle"
        /\ conns # <<>>

\* HandleOAuthCallback of goroutine p has returned success
CallbackDone(p) == op[p] = "HandleOAuthCallback" /\ pc[p] = "idle" /\ ret[p] = "ok"

\* after a successful callback the user has exactly one connection, active
C14_OneActiveAfterCallback ==
    \A p \in Procs :
        CallbackDone(p) =>
            /\ Cardinality(ConnRowsOf(uid[p])) = 1
            /\ Cardinality({i \in DOMAIN conns : conns[i].user_id = uid[p]}) = 1
            /\ \A r \in ConnRowsOf(uid[p]) : r.active

\* the successful store write of a callback leaves the record the callback
\* built, with the tokens of this exchange, as the user's only connection
C14_ReplacesPrior ==
    [][\A p \in Procs :
          (pc[p] = "cb_upsert" /\ ret'[p] = "ok") =>
              /\ ConnRowsOf(uid[p])' = {conn[p]}
              /\ conn[p].active
              /\ conn[p].access_token = AccessTok(issued)
              /\ conn[p].refresh_token = RefreshTok(issued)
              /\ \E e \in ExpiresIns :
                    conn[p].expires_at = conn[p].connected_at + e]_vars

\* C14: a successful HandleOAuthCallback for a user replaces the user's
\* prior connection by the new one (tokens, expiry), so that exactly one
\* connection of the user exists afterwards and it is active, also when the
\* prior one was inactive.
C14_CallbackIdempotent == []C14_OneActiveAfterCallback /\ C14_ReplacesPrior

\* a callback has replaced a differing, inactive connection of its user
C14_Witness ==
    \E p \in Procs :
        /\ CallbackDone(p)
        /\ {"conn", "conn_inactive"} \subseteq hist[p].overwrote
        /\ \E r \in ConnRowsOf(uid[p]) : r.active

\* ------------------------------------------------------------ /connect-whoop
\* handleConnectWHOOPCommand: GetConnectionStatus, then either the "already
\* connected" answer or the answer with the link GetAuthURL built, whose
\* state parameter is "<userID>:<32 hex characters>"; a failed read of the
\* connection is taken for "not connected"
handleConnectWHOOPCommand(p, userID, pair) ==
    /\ Begin(p, "handleConnectWHOOPCommand")
    /\ hist' = [hist EXCEPT ![p] = FreshHist]
    /\ all' = [all EXCEPT ![p] = FreshAll]
    /\ uid' = [uid EXCEPT ![p] = userID]
    /\ ret' = [ret EXCEPT ![p] = "none"]
    /\ \/ /\ GetWHOOPConnection(conns, userID) # NoConn
          /\ msg' = [msg EXCEPT ![p] = <<[part |-> "already_connected"]>>]
       \/ msg' = [msg EXCEPT ![p] =
                     <<[part |-> "auth_url", state |-> AuthState(userID, pair)]>>]
    /\ UNCHANGED <<now, issued, teamData, summary, store, pc, conn, tok, queue, resp, dead>>

\* one /connect-whoop on the command goroutine; the callback endpoint,
\* served on the other goroutine, takes whatever request reaches it
NextCSRF ==
    \/ Tick
    \/ /\ op["cmd"] = "none"
       /\ \E u \in Users, pair \in HexPairs : handleConnectWHOOPCommand("cmd", u, pair)
    \/ \E code \in Codes, state \in StateInputs \cup {<<>>} :
          handleCallback("cron", code, state)
    \/ CB_Exchange("cron")
    \/ CB_Profile("cron")
    \/ CB_Upsert("cron")
    \/ Http_Respond("cron")

SpecCSRF == Init /\ [][NextCSRF]_vars

\* -------------------------------------------- two syncs of one user at once
\* the refresh tokens the provider has exchanged for a new pair in the calls
\* the goroutines run or ran last
Revoked == {hist[p].usedRt : p \in Procs} \ {NoToken}

\* s.client.RefreshAccessToken against a provider that rotates refresh
\* tokens: the request succeeds exactly when its refresh token was not
\* exchanged before
RT_RefreshRotating(p) ==
    /\ RT_Refresh(p)
    /\ NeedsRefresh(conn[p], now) =>
          (pc'[p] = "rt_upsert" <=> conn[p].refresh_token \notin Revoked)

\* user U1 connected an hour ago; the token pair is due for refresh
InitRace ==
    /\ now = StartTime
    /\ issued = 1
    /\ calls = 1
    /\ msg = [p \in Procs |-> <<>>]
    /\ teamData = <<>>
    /\ summary = NoSummary
    /\ \E e \in ExpiresIns, w \in WhoopIds :
          conns = <<[user_id       |-> U1,
                     whoop_user_id |-> FmtInt(w),
                     access_token  |-> AccessTok(1),
                     refresh_token |-> RefreshTok(1),
                     expires_at    |-> StartTime - Hour + e,
                     connected_at  |-> StartTime - Hour,
                     active        |-> TRUE]>>
    /\ recovery = {}
    /\ sleep = {}
    /\ strain = {}
    /\ users = {}
    /\ karma = {}
    /\ karma_log = <<>>
    /\ pc = [p \in Procs |-> "idle"]
    /\ op = [p \in Procs |-> "none"]
    /\ uid = [p \in Procs |-> <<>>]
    /\ conn = [p \in Procs |-> NoConn]
    /\ tok = [p \in Procs |-> NoTok]
    /\ queue = [p \in Procs |-> <<>>]
    /\ resp = [p \in Procs |-> <<>>]
    /\ ret = [p \in Procs |-> "none"]
    /\ hist = [p \in Procs |-> FreshHist]
    /\ all = [p \in Procs |-> FreshAll]
    /\ dead = {}

\* /whoop-status of U1 on the command goroutine and the morning standup on
\* the cron goroutine, each once
RaceStep(p) ==
    \/ RT_RefreshRotating(p)
    \/ RT_Deactivate(p)
    \/ RT_Upsert(p)
    \/ Rec_Fetch(p)
    \/ Rec_Store(p)
    \/ Sleep_Fetch(p)
    \/ Sleep_Store(p)

NextRace ==
    \/ Tick
    \/ op["cmd"] = "none" /\ SyncUserData("cmd", U1)
    \/ op["cron"] = "none" /\ SyncAllUsersData("cron")
    \/ All_Next("cron")
    \/ RaceStep("cmd")
    \/ RaceStep("cron")

SpecRace == InitRace /\ [][NextRace]_vars

StrainOf(u) == {r \in strain : r.user_id = u}
ConnRowsIn(tbl, u) == {r \in RowsOf(tbl) : r.user_id = u}

\* DisconnectUser of goroutine p has returned success
DisconnectDone(p) == op[p] = "DisconnectUser" /\ pc[p] = "idle" /\ ret[p] = "ok"

\* this step is goroutine p's DisconnectUser
DisconnectStep(p) == calls' = calls + 1 /\ op'[p] = "DisconnectUser"

\* after DisconnectUser returned success its user has no active connection
C15_InactiveAfterDisconnect ==
    \A p \in Procs : DisconnectDone(p) => \A r \in ConnRowsOf(uid[p]) : ~r.active

\* DisconnectUser keeps every row; on success it clears the active flag of
\* its user's row and nothing else; it leaves the metric tables alone; the
\* SyncUserData that follows it for the same user finds no connection
C15_SoftDeleteSteps ==
    [][\A p \in Procs :
          /\ DisconnectStep(p) =>
                /\ UNCHANGED <<recovery, sleep, strain>>
                /\ Len(conns') = Len(conns)
                /\ \A b \in Users \ {uid'[p]} : ConnRowsOf(b)' = ConnRowsOf(b)
                /\ ret'[p] = "ok" =>
                      ConnRowsIn(conns', uid'[p]) =
                          {[r EXCEPT !.active = FALSE] : r \in ConnRowsIn(conns, uid'[p])}
                /\ ret'[p] # "ok" => conns' = conns
          /\ (DisconnectDone(p) /\ calls' = calls + 1
                 /\ op'[p] = "SyncUserData" /\ uid'[p] = uid[p]) =>
                /\ ret'[p] = "err_noconn" /\ pc'[p] = "idle"
                /\ UNCHANGED <<issued, store>>]_vars

\* C15: DisconnectUser is a soft delete: the user's connection record stays,
\* inactive, with tokens, expiry and provider id unchanged; no metric record
\* of any user changes; the next SyncUserData of the user returns the
\* no-connection error.
C15_SoftDelete == []C15_InactiveAfterDisconnect /\ C15_SoftDeleteSteps

\* a user with tokens and stored metrics was disconnected: the row is still
\* there, inactive, and so are the metrics
C15_Witness ==
    \E p \in Procs :
        /\ DisconnectDone(p)
        /\ \E r \in ConnRowsOf(uid[p]) : ~r.active /\ r.access_token # NoToken
        /\ RecoveryOf(uid[p]) # {}
        /\ SleepOf(uid[p]) # {}

\* user u has an active connection
IsActive(u) == \E r \in ConnRowsOf(u) : r.active

\* what the team query returns in the current state of the store
TeamData == GetTeamWHOOPDataForStandup(users, conns, recovery, sleep, strain)

\* C16: the team query returns exactly one row for every user with an active
\* connection, with or without metric records, and no row for a user without
\* an active connection.
C16_OneRowPerActiveUser ==
    /\ ~TeamData.err
    /\ \A u \in Users :
          Cardinality({x \in TeamData.rows : x.user_id = u}) = IF IsActive(u) THEN 1 ELSE 0

\* /whoop-status of goroutine p has answered with the status message
StatusDone(p) ==
    op[p] = "handleWHOOPStatusCommand" /\ pc[p] = "idle" /\ hist[p].sudRet = "ok"

HasPart(m, name) == \E i \in DOMAIN m : m[i].part = name

\* C17: the status message of a connected user has the recovery (sleep,
\* strain) section exactly when the store holds a record of that metric for
\* the user, and has the no-data text only when it holds none.
C17_StatusSections ==
    \A p \in Procs :
        StatusDone(p) =>
            /\ HasPart(msg[p], "recovery") <=> RecoveryOf(uid[p]) # {}
            /\ HasPart(msg[p], "sleep") <=> SleepOf(uid[p]) # {}
            /\ HasPart(msg[p], "strain") <=> StrainOf(uid[p]) # {}
            /\ (RecoveryOf(uid[p]) # {} \/ SleepOf(uid[p]) # {}) =>
                  ~HasPart(msg[p], "nodata")

\* the rows of the team data that carry key
Carriers(key) == {i \in DOMAIN teamData : key \in DOMAIN teamData[i]}

RECURSIVE SumOver(_, _)
\* the sum of the values of key over the rows idx of the team data
SumOver(idx, key) ==
    IF idx = {} THEN 0
    ELSE LET i == CHOOSE j \in idx : TRUE
         IN  teamData[i][key] + SumOver(idx \ {i}, key)

\* the fraction x is the mean of key over the rows that carry it
IsMeanOfCarriers(x, key) ==
    /\ x.den > 0
    /\ Carriers(key) # {} =>
          x.num * Cardinality(Carriers(key)) = x.den * SumOver(Carriers(key), key)

\* the rows [{recovery:80, sleep:90}, {recovery:60}]
C18_Example == <<Row(80, 90), Row(60, -1)>>

\* C18: each average of the team summary is taken over the rows that carry
\* the metric, a row without it counting neither in the sum nor in the
\* number of rows; the rows [{recovery:80, sleep:90}, {recovery:60}] give
\* average recovery 70 and average sleep 90.
C18_AverageOverCarriers ==
    summary # NoSummary =>
        /\ IsMeanOfCarriers(summary[1].recoveryNum, "recovery_score")
        /\ IsMeanOfCarriers(summary[1].sleepNum, "sleep_score")
        /\ teamData = C18_Example =>
              /\ summary[1].recoveryNum.num = 70 * summary[1].recoveryNum.den
              /\ summary[1].sleepNum.num = 90 * summary[1].sleepNum.den
              /\ summary[1].avgRecovery = [na |-> FALSE, pct |-> 70]
              /\ summary[1].avgSleep = [na |-> FALSE, pct |-> 90]

\* the summary of the example rows was computed
C18_Witness == summary # NoSummary /\ teamData = C18_Example

\* C19: for zero rows, and for rows none of which carries a metric, the
\* summary divides by no zero and the metric's average is 0, formatted "N/A".
C19_NoCarrierGivesNA ==
    summary # NoSummary =>
        /\ summary[1].recoveryNum.den > 0 /\ summary[1].sleepNum.den > 0
        /\ Carriers("recovery_score") = {} =>
              (summary[1].recoveryNum.num = 0 /\ summary[1].avgRecovery.na)
        /\ Carriers("sleep_score") = {} =>
              (summary[1].sleepNum.num = 0 /\ summary[1].avgSleep.na)

\* the summary of zero rows, and one of rows with recovery but no sleep
C19_Witness ==
    /\ summary # NoSummary
    /\ teamData = <<>> \/ (teamData # <<>> /\ Carriers("sleep_score") = {})
    /\ summary[1].avgSleep.na

\* averages from 0 to 100 in steps of 5
AverageGrid == {[num |-> 5 * k, den |-> 1] : k \in 0..20}

\* the label of the band of (a + b) / 2
BandLabel(a, b) ==
    LET twoM == a.num * b.den + b.num * a.den
        unit == a.den * b.den
    IN  CASE twoM >= 150 * unit                        -> "on fire"
          [] twoM >= 120 * unit /\ twoM < 150 * unit   -> "feeling strong"
          [] twoM >= 90 * unit /\ twoM < 120 * unit    -> "ready to go"
          [] twoM >= 60 * unit /\ twoM < 90 * unit     -> "needs coffee"
          [] twoM < 60 * unit                          -> "needs extra care"

\* on the grid the label is the label of the band, and pairs of averages with
\* the same sum get the same label; the statement does not depend on the
\* state
C20_GridBands ==
    \A a, b \in AverageGrid :
        /\ getTeamMoodEmoji(a, b) = BandLabel(a, b)
        /\ \A c, d \in AverageGrid :
              a.num + b.num = c.num + d.num =>
                  getTeamMoodEmoji(a, b) = getTeamMoodEmoji(c, d)

\* C20: the mood label is the label of the band of m = (avgRecovery +
\* avgSleep) / 2: m >= 75 on fire, 60 <= m < 75 feeling strong, 45 <= m < 60
\* ready to go, 30 <= m < 45 needs coffee, m < 30 needs extra care; pairs of
\* averages with the same m get the same label.  The grid part is evaluated in
\* the initial state of the empty team data.
C20_MoodBands ==
    /\ summary # NoSummary =>
          summary[1].emoji = BandLabel(summary[1].recoveryNum, summary[1].sleepNum)
    /\ (teamData = <<>> /\ summary = NoSummary) => C20_GridBands

\* a summary with m exactly 75 got the label of the top band
C20_Witness ==
    /\ summary # NoSummary
    /\ summary[1].emoji = "on fire"
    /\ summary[1].recoveryNum.num * summary[1].sleepNum.den
          + summary[1].sleepNum.num * summary[1].recoveryNum.den
       = 150 * summary[1].recoveryNum.den * summary[1].sleepNum.den

\* the standup message of the team data was formatted
StandupDone == msg["cron"] # <<>>

\* the user lines of a standup message
UserLines(m) == SelectSeq(m, LAMBDA x : x.part = "user")

\* the message for the empty row list
C21_ConnectMessage == <<[part |-> "connect"]>>

\* C21: FormatMorningStandup of the empty row list is the 'no data yet,
\* connect your account' message and of no other list; the message of one
\* row without metrics differs from it: it has the team overview and one
\* user line, whose only clause is the 'No recent data' placeholder.
C21_EmptyVersusNoMetrics ==
    StandupDone =>
        /\ (msg["cron"] = C21_ConnectMessage) <=> (teamData = <<>>)
        /\ teamData = <<Row(-1, -1)>> =>
              /\ msg["cron"] # FormatMorningStandup(<<>>, now)
              /\ HasPart(msg["cron"], "overview")
              /\ ~HasPart(msg["cron"], "connect")
              /\ Len(UserLines(msg["cron"])) = 1
              /\ UserLines(msg["cron"])[1].clauses = <<[clause |-> "nodata"]>>

\* the message of one row without metrics was formatted
C21_Witness ==
    /\ StandupDone
    /\ teamData = <<Row(-1, -1)>>
    /\ HasPart(msg["cron"], "overview")

\* the clauses named c of a user line
ClausesOf(line, c) == SelectSeq(line.clauses, LAMBDA x : x.clause = c)

\* the badge of the band of a recovery score
BadgeOfBand(score) ==
    CASE score >= 75                -> "green"
      [] score >= 50 /\ score < 75  -> "yellow"
      [] score >= 25 /\ score < 50  -> "orange"
      [] score < 25                 -> "red"

\* C22: the line formatUserData makes for a row has the recovery clause
\* exactly when the row carries a recovery score and the sleep clause exactly
\* when it carries a sleep score, the recovery badge is the one of the band
\* of the score (>= 75 green, >= 50 yellow, >= 25 orange, else red), and the
\* placeholder is there exactly when the row carries neither metric.
C22_ClausesFollowMetrics ==
    StandupDone =>
        \A i \in DOMAIN teamData :
            LET line == UserLines(msg["cron"])[i]
                row == teamData[i]
                hasRecovery == "recovery_score" \in DOMAIN row
                hasSleep == "sleep_score" \in DOMAIN row
            IN  /\ Len(UserLines(msg["cron"])) = Len(teamData)
                /\ Len(ClausesOf(line, "recovery")) = (IF hasRecovery THEN 1 ELSE 0)
                /\ Len(ClausesOf(line, "sleep")) = (IF hasSleep THEN 1 ELSE 0)
                /\ Len(ClausesOf(line, "nodata"))
                      = (IF hasRecovery \/ hasSleep THEN 0 ELSE 1)
                /\ hasRecovery =>
                      /\ ClausesOf(line, "recovery")[1].score = row["recovery_score"]
                      /\ ClausesOf(line, "recovery")[1].emoji
                            = BadgeOfBand(row["recovery_score"])
                /\ hasSleep =>
                      ClausesOf(line, "sleep")[1].score = row["sleep_score"]

\* a message with a line of recovery 75 and no sleep, and a line with sleep
\* and no recovery
C22_Witness ==
    /\ StandupDone
    /\ Len(teamData) = 2
    /\ "sleep_score" \notin DOMAIN teamData[1]
    /\ "recovery_score" \in DOMAIN teamData[1]
    /\ teamData[1]["recovery_score"] = 75
    /\ UserLines(msg["cron"])[1].clauses[1].emoji = "green"
    /\ "recovery_score" \notin DOMAIN teamData[2]
    /\ "sleep_score" \in DOMAIN teamData[2]

\* the sleep record of the call of goroutine p was stored
SleepStored(p) ==
    /\ pc[p] = "idle"
    /\ Len(hist[p].sleepGot) = 1
    /\ hist[p].sleepPut = <<"ok">>

\* the stored scores of the one record the call of goroutine p got
StoredScores(p) ==
    {r.score : r \in {x \in sleep : /\ x.user_id = uid[p]
                                      /\ x.date = Truncate(hist[p].sleepGot[1].end)}}

\* n is the integer part of num / den
IsIntegerPartOf(n, num, den) == n * den <= num /\ num < (n + 1) * den

\* sum of the stages in milliseconds; 7.5 hours are 27000000 ms and 6.5 hours
\* are 23400000 ms
StagesMS(s) == s.light + s.sws + s.rem

\* the branch of the estimate a record falls in
BranchOf(s) ==
    IF StagesMS(s) >= 27000000 /\ s.efficiency >= 85 THEN 1
    ELSE IF StagesMS(s) >= 23400000 /\ s.efficiency >= 75 THEN 2
    ELSE 3

\* the record's score is replaced by the estimate
UsesFallback(s) == s.sleep_score = 0 /\ s.efficiency > 0

\* C23: the stored sleep score is the provider's score when that score is
\* not 0 or the efficiency is 0; for score 0 and efficiency > 0 it is the
\* integer part of 75 + (e - 0.85) * 100 when hours >= 7.5 and e >= 0.85,
\* else of 60 + (e - 0.75) * 150 when hours >= 6.5 and e >= 0.75, else of
\* e * 60; score 0, e = 0.90 and 8 hours give 80.
C23_StoredSleepScore ==
    \A p \in Procs :
        SleepStored(p) =>
            LET s == hist[p].sleepGot[1]
                e == s.efficiency
            IN  /\ Cardinality(StoredScores(p)) = 1
                /\ \A n \in StoredScores(p) :
                      /\ ~UsesFallback(s) => n = s.sleep_score
                      /\ (UsesFallback(s) /\ BranchOf(s) = 1) =>
                            IsIntegerPartOf(n, 7500 + (e - 85) * 100, 100)
                      /\ (UsesFallback(s) /\ BranchOf(s) = 2) =>
                            IsIntegerPartOf(n, 6000 + (e - 75) * 150, 100)
                      /\ (UsesFallback(s) /\ BranchOf(s) = 3) =>
                            IsIntegerPartOf(n, e * 60, 100)
                      /\ (s.sleep_score = 0 /\ e = 90 /\ StagesMS(s) = 28800000) => n = 80

\* the record with score 0, efficiency 90 and 8 hours was stored with its
\* estimate
C23_Witness ==
    \E p \in Procs :
        /\ SleepStored(p)
        /\ hist[p].sleepGot[1].sleep_score = 0
        /\ hist[p].sleepGot[1].efficiency = 90
        /\ StagesMS(hist[p].sleepGot[1]) = 28800000
        /\ StoredScores(p) = {80}

\* C24: a sleep score stored by the fallback lies in the range of its
\* branch, 75..90 for the first, 60..75 for the second and 0..60 for the
\* third, and so within 0..100.
C24_EstimateInBranchRange ==
    \A p \in Procs :
        (SleepStored(p) /\ UsesFallback(hist[p].sleepGot[1])) =>
            \A n \in StoredScores(p) :
                /\ BranchOf(hist[p].sleepGot[1]) = 1 => (75 <= n /\ n <= 90)
                /\ BranchOf(hist[p].sleepGot[1]) = 2 => (60 <= n /\ n <= 75)
                /\ BranchOf(hist[p].sleepGot[1]) = 3 => (0 <= n /\ n <= 60)
                /\ 0 <= n /\ n <= 100

\* GetUserLatestData of goroutine p has returned
LatestDone(p) == op[p] = "GetUserLatestData" /\ pc[p] = "idle"

\* the table of a metric
TableOf(k) == CASE k = "recovery" -> recovery [] k = "sleep" -> sleep [] OTHER -> strain

\* the rows of metric k the store has for user u
MetricRows(k, u) == {r \in TableOf(k) : r.user_id = u}

\* row r is the one of the greatest date among the rows of its user
HasGreatestDate(k, r) ==
    /\ r \in MetricRows(k, r.user_id)
    /\ \A x \in MetricRows(k, r.user_id) : x.date <= r.date

\* C25 as stated: GetUserLatestData never returns an error, and its result
\* has the key of a metric exactly when the store has a record of that type
\* for the user, the value being the record of the greatest date.
C25_KeyExactlyWhenStored ==
    \A p \in Procs :
        LatestDone(p) =>
            /\ ret[p] = "ok"
            /\ \A k \in Metrics :
                  /\ (k \in DOMAIN hist[p].data) <=> (MetricRows(k, uid[p]) # {})
                  /\ k \in DOMAIN hist[p].data => HasGreatestDate(k, hist[p].data[k])

\* C25: GetUserLatestData never returns an error; its result has the key of
\* a metric type only when the store has a record of that type for the user,
\* it has the key whenever the store has one and the read of that type did
\* not fail, and the value is the user's record of the greatest date.
C25_KeyWhenStoredAndRead ==
    \A p \in Procs :
        LatestDone(p) =>
            /\ ret[p] = "ok"
            /\ \A k \in Metrics :
                  /\ k \in DOMAIN hist[p].data => MetricRows(k, uid[p]) # {}
                  /\ (k \in hist[p].readable /\ MetricRows(k, uid[p]) # {})
                        => k \in DOMAIN hist[p].data
                  /\ k \in DOMAIN hist[p].data =>
                        /\ hist[p].data[k].user_id = uid[p]
                        /\ HasGreatestDate(k, hist[p].data[k])

\* the result for a user with recovery records of two days has the later one
C25_Witness ==
    \E p \in Procs :
        /\ LatestDone(p)
        /\ "recovery" \in DOMAIN hist[p].data
        /\ \E r \in MetricRows("recovery", uid[p]) : r.date < hist[p].data["recovery"].date

\* no step writes table whoop_strain
C26_NoStrainWrite == [][strain' = strain]_vars

\* no strain record exists: the latest strain of every user is empty, the
\* latest data of no user has the strain key, no team row has a strain score
C26_NoStrainAnywhere ==
    /\ strain = {}
    /\ \A u \in Users :
          /\ LatestOf(strain, u) = {}
          /\ "strain" \notin DOMAIN GetUserLatestData(recovery, sleep, strain, u, Metrics)
    /\ \A row \in TeamData.rows :
          "strain_score" \notin DOMAIN row /\ "strain_date" \notin DOMAIN row

\* C26: in every state reachable through the service and handler
\* operations no strain record exists, because no operation writes one: the
\* latest strain is empty for every user, the latest data of a user never
\* has strain, and no team row carries a strain score.
C26_NoStrainRecord == []C26_NoStrainAnywhere /\ C26_NoStrainWrite

\* a user was synced and has a team row with recovery and sleep, and the
\* latest data of that user has its recovery and sleep
C26_Witness ==
    /\ \E row \in TeamData.rows :
          "recovery_score" \in DOMAIN row /\ "sleep_score" \in DOMAIN row
    /\ \E u \in Users :
          {"recovery", "sleep"} \subseteq
              DOMAIN GetUserLatestData(recovery, sleep, strain, u, Metrics)

\* the request of goroutine p to the callback endpoint has been answered
HttpDone(p) == op[p] = "handleCallback" /\ pc[p] = "idle"

\* the response to the request of goroutine p
Response(p) == msg[p][1]

\* the answer of the endpoint to a finished request
C27_Answer ==
    \A p \in Procs :
        HttpDone(p) =>
            LET code == hist[p].req[1]
                state == hist[p].req[2]
            IN  /\ Len(msg[p]) = 1
                /\ (code = <<>> \/ state = <<>>) =>
                      /\ Response(p).status = 400
                      /\ hist[p].cbCalls = 0
                      /\ ret[p] = "none"
                /\ (code # <<>> /\ state # <<>>) =>
                      /\ hist[p].cbCalls = 1
                      /\ ret[p] # "none"
                      /\ ret[p] = "ok" => Response(p) = HttpSuccess[1]
                      /\ ret[p] # "ok" =>
                            /\ Response(p).status >= 400
                            /\ Response(p).body = ret[p]

\* while the call of HandleOAuthCallback runs, no response is written and it
\* was called once
C27_OneCallWhileRunning ==
    \A p \in Procs :
        (op[p] = "handleCallback" /\ pc[p] # "idle") =>
            hist[p].cbCalls = 1 /\ hist[p].req[1] # <<>> /\ hist[p].req[2] # <<>>

\* C27: the callback endpoint answers 400 without calling
\* HandleOAuthCallback when the code or the state parameter is absent; when
\* both are present it calls HandleOAuthCallback exactly once and answers 200
\* with the HTML confirmation when the call succeeded, and an HTTP error
\* response carrying the failure detail when it failed.
C27_CallbackEndpoint == C27_Answer /\ C27_OneCallWhileRunning

\* a request with both parameters was answered 200 and the user is connected
C27_Witness ==
    \E p \in Procs :
        /\ HttpDone(p)
        /\ Response(p) = HttpSuccess[1]
        /\ \E r \in RowsOf(conns) : r.user_id = uid[p] /\ r.active

\* SendMorningStandup of goroutine p has returned
StandupReturned(p) == op[p] = "SendMorningStandup" /\ pc[p] = "idle"

\* C28: the morning standup posts no message to the standup channel when no
\* team member has WHOOP data, that is, when the store holds no recovery,
\* sleep or strain record.
C28_NoPostWithoutData ==
    \A p \in Procs :
        (StandupReturned(p) /\ recovery = {} /\ sleep = {} /\ strain = {}) => msg[p] = <<>>

\* the day boundary at or before time t
DayStart(t) == Day * (t \div Day)

\* this step is a successful store of the recovery record at the head of the
\* response of goroutine p
RecStoredStep(p) ==
    pc[p] = "rec_store" /\ hist'[p].recPut = Append(hist[p].recPut, "ok")

\* this step is a successful store of the sleep record at the head of the
\* response of goroutine p
SleepStoredStep(p) ==
    pc[p] = "sleep_store" /\ hist'[p].sleepPut = Append(hist[p].sleepPut, "ok")

\* C29: ingestion stores a recovery record under the day boundary at or
\* before its creation timestamp and a sleep record under the day boundary
\* at or before its end timestamp, not its start: a session that starts on
\* day D and ends on day D+1 is stored under D+1 and adds no row under D.
C29_RecordDates ==
    [][\A p \in Procs :
          /\ RecStoredStep(p) =>
                /\ \E r \in recovery' :
                      /\ r.user_id = conn[p].user_id
                      /\ r.date = DayStart(Head(resp[p]).created_at)
                      /\ r.created_at = now
                /\ \A r \in recovery' \ recovery :
                      r.date = DayStart(Head(resp[p]).created_at)
          /\ SleepStoredStep(p) =>
                /\ \E r \in sleep' :
                      /\ r.user_id = conn[p].user_id
                      /\ r.date = DayStart(Head(resp[p]).end)
                      /\ r.created_at = now
                /\ \A r \in sleep' \ sleep :
                      r.date = DayStart(Head(resp[p]).end)]_vars

\* a sleep session that started the day before it ended is stored under the
\* day of its end, after a recovery record was stored under its day
C29_Witness ==
    \E p \in Procs :
        /\ Returned(p)
        /\ Len(hist[p].sleepGot) > 0 /\ Len(hist[p].sleepPut) > 0
        /\ hist[p].sleepPut[1] = "ok"
        /\ DayStart(hist[p].sleepGot[1].start) < DayStart(hist[p].sleepGot[1].end)
        /\ \E r \in sleep : r.user_id = uid[p] /\ r.date = DayStart(hist[p].sleepGot[1].end)
        /\ ~\E r \in sleep : r.user_id = uid[p] /\ r.date = DayStart(hist[p].sleepGot[1].start)
        /\ Len(hist[p].recPut) > 0 /\ hist[p].recPut[1] = "ok"
        /\ \E r \in recovery :
              r.user_id = uid[p] /\ r.date = DayStart(hist[p].recGot[1].created_at)

\* how many requests of a kind the call of goroutine p has issued
Issued(p, kind) == Cardinality({i \in DOMAIN hist[p].requests : hist[p].requests[i] = kind})

\* one SyncUserData issues at most one refresh request, one recovery fetch
\* and one sleep fetch, and nothing else
C30_AtMostOneEach ==
    \A p \in Procs :
        /\ Issued(p, "refresh") <= 1
        /\ Issued(p, "recovery") <= 1
        /\ Issued(p, "sleep") <= 1
        /\ \A i \in DOMAIN hist[p].requests :
              hist[p].requests[i] \in {"refresh", "recovery", "sleep"}
        /\ hist[p].refreshCalls = Issued(p, "refresh")

\* the step that issues the recovery fetch uses the window of the two days
\* that end at the time of the step, the step that issues the sleep fetch
\* uses the same window, and the store steps issue no request
C30_WindowSteps ==
    [][\A p \in Procs :
          /\ (pc[p] = "rec_fetch" /\ hist'[p] # hist[p]) =>
                /\ Len(hist'[p].requests) = Len(hist[p].requests) + 1
                /\ hist'[p].window = <<now - 2 * Day, now>>
          /\ (pc[p] = "sleep_fetch" /\ hist'[p] # hist[p]) =>
                /\ Len(hist'[p].requests) = Len(hist[p].requests) + 1
                /\ Len(hist[p].window) = 2
                /\ hist[p].window[2] - hist[p].window[1] = 2 * Day
                /\ hist[p].window[2] <= now
          /\ pc[p] \in {"rec_store", "sleep_store"} =>
                hist'[p].requests = hist[p].requests]_vars

\* C30: SyncUserData uses the window of the 2 days that end now, issues at
\* most one refresh request, at most one recovery fetch and at most one
\* sleep fetch, never a workout fetch, and never follows a continuation
\* token: after a page that came with one, no further fetch of that metric
\* is issued.
C30_BoundedFetches == []C30_AtMostOneEach /\ C30_WindowSteps

\* a sync that refreshed the token and whose recovery and sleep pages came
\* with a continuation token has returned after those three requests
C30_Witness ==
    \E p \in Procs :
        /\ Returned(p)
        /\ hist[p].sudRet = "ok"
        /\ NextToken(hist[p].recGot) # <<>>
        /\ NextToken(hist[p].sleepGot) # <<>>
        /\ hist[p].requests = <<"refresh", "recovery", "sleep">>

\* the call of goroutine p issues a metric fetch in this step
FetchStep(p) == Len(hist'[p].fetchToks) = Len(hist[p].fetchToks) + 1

\* in a call whose refresh failed no metric fetch was issued and no record
\* was handed to the store; a refresh request comes before every fetch
\* request; all fetches of a call send the same token
C31_NothingAfterFailedRefresh ==
    \A p \in Procs :
        LET h == hist[p]
        IN  /\ "refresh" \in h.fails =>
                  /\ h.fetchToks = <<>>
                  /\ h.fetched = {}
                  /\ Issued(p, "recovery") = 0 /\ Issued(p, "sleep") = 0
                  /\ h.recPut = <<>> /\ h.sleepPut = <<>>
            /\ \A i, j \in DOMAIN h.requests :
                  (h.requests[i] = "refresh" /\ h.requests[j] # "refresh") => i < j
            /\ \A i, j \in DOMAIN h.fetchToks : h.fetchToks[i] = h.fetchToks[j]

\* a step that issues a metric fetch comes after the refresh decision of the
\* call, and sends the access token issued by the refresh of the call when
\* there was one, else the token of the loaded connection
C31_FetchTokenSteps ==
    [][\A p \in Procs :
          FetchStep(p) =>
              LET used == hist'[p].fetchToks[Len(hist'[p].fetchToks)]
                  loaded == hist[p].rtIn
              IN  /\ loaded # NoConn
                  /\ "refresh" \notin hist[p].fails
                  /\ IF hist[p].refreshCalls > 0
                     THEN /\ used # loaded.access_token
                          /\ used[1] = "at"
                          /\ used[2] > loaded.access_token[2]
                          /\ used[2] <= issued
                     ELSE used = loaded.access_token]_vars

\* C31: within SyncUserData the refresh decision precedes every metric
\* fetch; when a refresh happens both fetches send the newly issued access
\* token, never the replaced one; when the refresh fails no metric fetch is
\* issued and no metric record is written in that call.
C31_RefreshBeforeFetch == []C31_NothingAfterFailedRefresh /\ C31_FetchTokenSteps

\* after a sync of the behaviour failed to refresh, a sync has refreshed the
\* token, fetched both metrics with the new token and stored a record
C31_Witness ==
    \E p \in Procs :
        /\ Returned(p)
        /\ dead # {}
        /\ hist[p].sudRet = "ok"
        /\ hist[p].refreshCalls = 1
        /\ Len(hist[p].fetchToks) = 2
        /\ \E i \in DOMAIN hist[p].recPut : hist[p].recPut[i] = "ok"

\* goroutine p writes the refreshed connection to the store in this step
RefreshWriteStep(p) == pc[p] = "rt_upsert" /\ conns' # conns

\* the row of user u in table tbl
ConnOf(tbl, u) == CHOOSE r \in RowsOf(tbl) : r.user_id = u

\* C32: a successful refresh replaces exactly the access token, the refresh
\* token and the expiry (the refresh time plus expires_in) of the stored
\* connection; the user id, the provider user id, the connected timestamp
\* and the active flag of that connection, and the connection of every
\* other user, are unchanged.
C32_RefreshFrame ==
    [][\A p \in Procs :
          RefreshWriteStep(p) =>
              LET u == conn[p].user_id
                  old == ConnOf(conns, u)
                  new == ConnOf(conns', u)
              IN  /\ \E r \in RowsOf(conns) : r.user_id = u
                  /\ Cardinality({i \in DOMAIN conns' : conns'[i].user_id = u}) = 1
                  /\ new.access_token = conn[p].access_token
                  /\ new.refresh_token = conn[p].refresh_token
                  /\ new.access_token # old.access_token
                  /\ new.refresh_token # old.refresh_token
                  /\ \E e \in ExpiresIns : new.expires_at = hist[p].rtNow + e
                  /\ new.user_id = old.user_id
                  /\ new.whoop_user_id = old.whoop_user_id
                  /\ new.connected_at = old.connected_at
                  /\ new.active = old.active
                  /\ \A v \in Users \ {u} :
                        {r \in RowsOf(conns') : r.user_id = v}
                            = {r \in RowsOf(conns) : r.user_id = v}]_vars

\* user u has an active connection in table tbl
ActiveIn(tbl, u) == \E r \in ConnRowsIn(tbl, u) : r.active

\* this step is the successful store of HandleOAuthCallback for user u
CompleteStep(u) ==
    \E p \in Procs : pc[p] = "cb_upsert" /\ conn[p].user_id = u /\ ret'[p] = "ok"

\* C33: once DisconnectUser for a user has returned, the user's connection
\* stays inactive until a HandleOAuthCallback for the user succeeds, also
\* when a SyncUserData or SyncAllUsersData that loaded the connection before
\* the disconnect completes its token refresh afterwards: the only step that
\* makes the connection active again is the store of a callback.
C33_StaysInactive ==
    [][\A q \in Procs :
          (DisconnectDone(q) /\ ~ActiveIn(conns, uid[q]) /\ ActiveIn(conns', uid[q]))
              => CompleteStep(uid[q])]_vars

\* both syncs have returned, each after a refresh request, and no store call
\* of either failed
BothRefreshed ==
    \A p \in Procs :
        /\ Returned(p)
        /\ hist[p].refreshCalls = 1
        /\ hist[p].fails \cap {"conn_write", "deactivate"} = {}

\* C34: with a provider that invalidates a refresh token once it has been
\* used, two SyncUserData executions for one user that run concurrently,
\* both from a connection that is due for refresh with a valid refresh
\* token, leave the user's connection active, with a stored refresh token
\* the provider has not invalidated.
C34_RaceKeepsConnection ==
    BothRefreshed =>
        /\ ActiveIn(conns, U1)
        /\ \A r \in ConnRowsIn(conns, U1) : r.refresh_token \notin Revoked

\* the state values the bot has handed out in authorization links
IssuedStates ==
    {m.state : m \in {msg["cmd"][i] : i \in {j \in DOMAIN msg["cmd"] :
                                                msg["cmd"][j].part = "auth_url"}}}

\* C35: the OAuth state is checked as an anti-CSRF token: HandleOAuthCallback
\* creates or replaces a connection only for a state value that GetAuthURL
\* produced before; a state that was never issued is rejected and changes
\* no connection.
C35_OnlyIssuedStates ==
    [][\A p \in Procs :
          (pc[p] = "cb_upsert" /\ conns' # conns) => hist[p].req[2] \in IssuedStates]_vars

\* the errors of HandleOAuthCallback that come before its store call
EarlyErrors == {"err_state", "err_exchange", "err_profile"}

\* goroutine p is inside HandleOAuthCallback, or at its return, after this step
InCallback(p) == op'[p] \in {"HandleOAuthCallback", "handleCallback"}

\* C36: when HandleOAuthCallback fails on the state, on the code exchange or
\* on the profile fetch, the record store is unchanged: no step of the call
\* up to the failure, and no step after it, writes; a connection the user
\* already has keeps its tokens, expiry and active flag.
C36_EarlyFailureWritesNothing ==
    [][\A p \in Procs :
          InCallback(p) =>
              /\ (ret[p] \in EarlyErrors \/ ret'[p] \in EarlyErrors) => UNCHANGED store
              /\ pc[p] \in {"idle", "cb_exchange", "cb_profile"} => UNCHANGED store]_vars

\* a callback for a user with an active connection has failed on the profile
\* fetch after the provider issued a new token pair; the stored connection
\* still holds the older pair
C36_Witness ==
    \E p \in Procs :
        /\ op[p] = "HandleOAuthCallback"
        /\ pc[p] = "idle"
        /\ ret[p] = "err_profile"
        /\ \E r \in ConnRowsOf(uid[p]) :
              /\ r.active
              /\ r.access_token # AccessTok(issued)
              /\ issued > 1

\* this step starts the turn of the next listed user in goroutine p's
\* SyncAllUsersData
TurnStep(p) == pc[p] = "all_next" /\ Len(all'[p].order) = Len(all[p].order) + 1

\* C37: SyncAllUsersData syncs each user from the connection stored when the
\* user's turn comes, not from the listing: a user without an active
\* connection at that moment gets no provider call and no record write, and
\* a user with one is synced with the row stored at that moment.
C37_TurnReadsStore ==
    [][\A p \in Procs :
          TurnStep(p) =>
              LET u == all'[p].order[Len(all'[p].order)]
              IN  /\ u \in all[p].listed
                  /\ uid'[p] = u
                  /\ UNCHANGED <<store, issued>>
                  /\ ~ActiveIn(conns, u) =>
                        /\ pc'[p] = "all_next"
                        /\ hist'[p].sudRet = "err_noconn"
                        /\ hist'[p].requests = <<>>
                        /\ hist'[p].recPut = <<>> /\ hist'[p].sleepPut = <<>>
                  /\ pc'[p] = "rt_check" =>
                        /\ ActiveIn(conns, u)
                        /\ conn'[p] \in ConnRowsOf(u)]_vars

\* a listed user was disconnected before the turn came: the turn returned
\* the no-connection error without a request
C37_Witness ==
    \E p \in Procs :
        /\ op[p] = "SyncAllUsersData"
        /\ pc[p] = "all_next"
        /\ uid[p] \in all[p].listed
        /\ all[p].order # <<>>
        /\ ~ActiveIn(conns, uid[p])
        /\ ConnRowsOf(uid[p]) # {}
        /\ hist[p].sudRet = "err_noconn"
        /\ hist[p].requests = <<>>

\* C38: the team summary renders "N/A" for a metric only when no row carries
\* that metric: whenever at least one row carries a recovery (or sleep)
\* score, also when all such scores are 0, the average is rendered as a
\* percentage.
C38_NAOnlyWithoutCarriers ==
    summary # NoSummary =>
        /\ summary[1].avgRecovery.na => Carriers("recovery_score") = {}
        /\ summary[1].avgSleep.na => Carriers("sleep_score") = {}

\* the score of user u: that of the user's karma row, 0 without a row
ScoreOf(tbl, u) ==
    IF \E r \in tbl : r.user_id = u THEN (CHOOSE r \in tbl : r.user_id = u).score ELSE 0

\* the number of log entries recorded for user u
LoggedFor(log, u) == Cardinality({i \in DOMAIN log : log[i].user_id = u})

\* this step handles a message with karma syntax on goroutine p
KarmaStep(p) == op'[p] = "handleKarmaIncrements" /\ hist'[p] # hist[p]

\* every score is the number of log entries of its user; there is one karma
\* row per user; nobody has karma from themselves and the bot has none
C39_ScoreIsLogCount ==
    /\ \A u \in Users \cup {BotID} : ScoreOf(karma, u) = LoggedFor(karma_log, u)
    /\ \A r1, r2 \in karma : r1.user_id = r2.user_id => r1 = r2
    /\ \A i \in DOMAIN karma_log :
          /\ karma_log[i].user_id # karma_log[i].given_by
          /\ karma_log[i].user_id # BotID

\* handling a message leaves the score and the log entries of its sender
\* and of the bot as they are, and a message whose matches all name the
\* sender or the bot changes neither table
C39_RefusedSteps ==
    [][\A p \in Procs :
          KarmaStep(p) =>
              LET sender == hist'[p].req[1]
                  targets == hist'[p].req[2]
              IN  /\ \A u \in {sender, BotID} :
                        /\ ScoreOf(karma', u) = ScoreOf(karma, u)
                        /\ LoggedFor(karma_log', u) = LoggedFor(karma_log, u)
                  /\ (\A i \in DOMAIN targets : targets[i] \in {sender, BotID})
                        => UNCHANGED <<karma, karma_log>>]_vars

====
